---- MODULE Spec2Model ----
(***************************************************************************)
(* user-svc: the session / refresh-token lifecycle.                        *)
(*                                                                         *)
(* The store holds two tables, users and refresh_tokens.  Requests are     *)
(* served concurrently, one goroutine each; a store call of a request is    *)
(* one atomic step, and the local computation around it (hashing, validity  *)
(* checks, token minting) is folded into that step.                         *)
(*                                                                         *)
(* Time is counted in ticks: time.Now().Unix() is `now`, and                *)
(* time.Now().UnixMilli() is 1000 * now (UnixMilli below).                  *)
(***************************************************************************)
EXTENDS Integers, Sequences, FiniteSets, Bags, TLC

\* ------------------------------------------------------------------ bounds
MaxInFlight == 2
MaxTokens == 1
MaxUsers == 1
MaxNow == 2
MaxNames == 2

\* 7*24*time.Hour handed to NewUserService, in ticks of the model clock.
RefreshTokenDuration == 1

\* The default of cfg.Server.GRPC.GracefulShutdownTimeout (30 * time.Second),
\* in ticks of the model clock.
GracefulShutdownTimeout == 2

\* Principal k registers with the email and the username numbered k.
Emails == 1..MaxUsers

\* The emails and the usernames that callers choose freely.
Names == 1..MaxNames

VARIABLES
    users,           \* table users: set of rows [id, email, username]
    refresh_tokens,  \* table refresh_tokens: set of rows
    bearers,         \* payloads of the refresh bearers minted so far, by jti
    now,             \* time.Now().Unix()
    inflight,        \* the requests in flight: a bag of request records
    returned,        \* the response most recently returned to a caller
    consumed,        \* bearers a completed RefreshToken call has succeeded with
    revokedAll,      \* bearers minted for an owner before a RevokeAllUserTokens
                     \* of that owner returned success
    call,            \* the function of a package applied last: inputs, result
    server,          \* main: where it stands, the database handle, and the
                     \* time since the shutdown signal
    rateLimiter      \* RateLimitInterceptor: requestCounts and lastReset of
                     \* the closure, and the calls inside the interceptor

vars == <<users, refresh_tokens, bearers, now, inflight, returned, consumed,
          revokedAll, call, server, rateLimiter>>

\* ------------------------------------------------------------ error kinds
Nil == "nil"
ErrEmailIsRequired == "ErrEmailIsRequired"
ErrInvalidEmail == "ErrInvalidEmail"
ErrInvalidUsername == "ErrInvalidUsername"
ErrInvalidPassword == "ErrInvalidPassword"
ErrUserNotFound == "ErrUserNotFound"
ErrInvalidToken == "ErrInvalidToken"
ErrTokenExpired == "ErrTokenExpired"
ErrTokenRevoked == "ErrTokenRevoked"
ErrTokenNotFound == "ErrTokenNotFound"
ErrInvalidCredentials == "ErrInvalidCredentials"
ErrUserExists == "ErrUserExists"
ErrDuplicateKey == "pq: duplicate key value"
ErrStore == "store error"
ErrTokenMaker == "token maker error"
Panic == "panic"
\* ctx.Err() of a context that is done.
ContextCanceled == "context canceled"
ContextDeadlineExceeded == "context deadline exceeded"
\* The errors of package token.
TokenErrInvalidToken == "token is invalid"
TokenErrExpiredToken == "token has expired"

\* --------------------------------------------------------------- the clock
UnixMilli(t) == 1000 * t

\* -------------------------------------------------------------- token hash
\* The bearer strings: 0 is the empty string, k >= 1 the bearer minted with
\* jti k, and -1 a string the token maker did not produce.
HashToken(b) == <<"sha256", b>>

GenerateTokenHash(b) == <<b, HashToken(b)>>

\* ------------------------------------------------------------- token maker
\* NewPayload with the same ID in every payload.
NewPayloadSameID(username, duration, t, id) ==
    [id |-> 1, sub |-> username, iat |-> t, exp |-> t + duration]

\* The payload of a token: a new uuid (id, never uuid.Nil, which is 0), the
\* username, the time of issue and the expiry, duration seconds later.
NewPayload(username, duration, t, id) ==
    [id |-> id, sub |-> username, iat |-> t, exp |-> t + duration]

\* A string verifies when the maker minted it and its payload has not
\* expired; a payload is expired once time.Now().Unix() > ExpiredAt.
VerifyToken(b, t) ==
    IF b \in 1..Len(bearers) /\ ~(t > bearers[b].exp) THEN Nil ELSE ErrInvalidToken

VerifyRefreshToken(b, t) == VerifyToken(b, t)

\* ----------------------------------------------------- domain.RefreshToken
NewRefreshTokenErr(userID, tokenHash, expiresAt, t) ==
    IF userID = 0 THEN ErrInvalidToken
    ELSE IF tokenHash = <<>> THEN ErrInvalidToken
    ELSE IF expiresAt <= t THEN ErrTokenExpired
    ELSE Nil

\* NewRefreshToken building the record with IsRevoked set.
NewRefreshTokenRevoked(id, userID, tokenHash, expiresAt) ==
    [id |-> id, user_id |-> userID, token_hash |-> tokenHash,
     expires_at |-> expiresAt, is_revoked |-> TRUE]

NewRefreshToken(id, userID, tokenHash, expiresAt) ==
    [id |-> id, user_id |-> userID, token_hash |-> tokenHash,
     expires_at |-> expiresAt, is_revoked |-> FALSE]

\* IsValid with the expiry looked at before the revoked flag.
IsValidExpiryFirst(rt, t) ==
    IF rt.id = 0 THEN ErrInvalidToken
    ELSE IF rt.user_id = 0 THEN ErrInvalidToken
    ELSE IF rt.token_hash = <<>> THEN ErrInvalidToken
    ELSE IF rt.expires_at <= t THEN ErrTokenExpired
    ELSE IF rt.is_revoked THEN ErrTokenRevoked
    ELSE Nil

\* IsValid without its expiry check.
IsValidIgnoringExpiry(rt, t) ==
    IF rt.id = 0 THEN ErrInvalidToken
    ELSE IF rt.user_id = 0 THEN ErrInvalidToken
    ELSE IF rt.token_hash = <<>> THEN ErrInvalidToken
    ELSE IF rt.is_revoked THEN ErrTokenRevoked
    ELSE Nil

\* IsValid without its revoked check.
IsValidIgnoringRevoked(rt, t) ==
    IF rt.id = 0 THEN ErrInvalidToken
    ELSE IF rt.user_id = 0 THEN ErrInvalidToken
    ELSE IF rt.token_hash = <<>> THEN ErrInvalidToken
    ELSE IF rt.expires_at <= t THEN ErrTokenExpired
    ELSE Nil

\* IsValid reporting a revoked session as an invalid token.
IsValidRevokedAsInvalid(rt, t) ==
    IF rt.id = 0 THEN ErrInvalidToken
    ELSE IF rt.user_id = 0 THEN ErrInvalidToken
    ELSE IF rt.token_hash = <<>> THEN ErrInvalidToken
    ELSE IF rt.is_revoked THEN ErrInvalidToken
    ELSE IF rt.expires_at <= t THEN ErrTokenExpired
    ELSE Nil

IsValid(rt, t) ==
    IF rt.id = 0 THEN ErrInvalidToken
    ELSE IF rt.user_id = 0 THEN ErrInvalidToken
    ELSE IF rt.token_hash = <<>> THEN ErrInvalidToken
    ELSE IF rt.is_revoked THEN ErrTokenRevoked
    ELSE IF rt.expires_at <= t THEN ErrTokenExpired
    ELSE Nil

\* ------------------------------------------------ RefreshTokenRepository
\* GetByTokenHash with a SELECT that has no WHERE token_hash = $1.
GetByTokenHashAnyRow(h) ==
    IF refresh_tokens = {} THEN 0 ELSE (CHOOSE r \in refresh_tokens : TRUE).id

\* SELECT ... WHERE token_hash = $1: the id of the row found, 0 for
\* sql.ErrNoRows.
GetByTokenHash(h) ==
    LET m == {r \in refresh_tokens : r.token_hash = h}
    IN  IF m = {} THEN 0 ELSE (CHOOSE r \in m : TRUE).id

Row(id) == CHOOSE r \in refresh_tokens : r.id = id

\* RevokeByID with WHERE user_id = (the owner of the row $1).
RevokeByIDRowsOfOwner(id) ==
    {r \in refresh_tokens :
        \E q \in refresh_tokens : q.id = id /\ r.user_id = q.user_id}

\* UPDATE refresh_tokens SET is_revoked = true ... WHERE id = $1
RevokeByIDRows(id) == {r \in refresh_tokens : r.id = id}

\* UPDATE refresh_tokens SET is_revoked = true ... WHERE user_id = $1
RevokeByUserIDRows(userID) == {r \in refresh_tokens : r.user_id = userID}

\* SET is_revoked = NOT is_revoked
SetRevokedFlipped(row) == [row EXCEPT !.is_revoked = ~row.is_revoked]

SetRevoked(row) == [row EXCEPT !.is_revoked = TRUE]

\* The table after the UPDATE has run on `rows`.
Revoke(rows) ==
    (refresh_tokens \ rows) \cup {SetRevoked(r) : r \in rows}

\* DELETE FROM refresh_tokens WHERE expires_at < ?, bound to UnixMilli()
DeleteExpiredRows(t) ==
    {r \in refresh_tokens : r.expires_at < UnixMilli(t)}

\* --------------------------------------------------------- UserRepository
GetByEmail(email) ==
    LET m == {u \in users : u.email = email}
    IN  IF m = {} THEN 0 ELSE (CHOOSE u \in m : TRUE).id

GetByID(id) == IF \E u \in users : u.id = id THEN id ELSE 0

Username(id) == (CHOOSE u \in users : u.id = id).username

PasswordHash(id) == (CHOOSE u \in users : u.id = id).password_hash

\* uuid.New(): a fresh identifier.  An email is inserted at most once and a
\* bearer gets at most one session row, so the number of the email and the
\* jti of the bearer are fresh when the row is built.
NewUserID(email) == email

\* ------------------------------------------------------------ domain.User
\* bcrypt.GenerateFromPassword: a digest that is not the plaintext.
GenerateFromPassword(password) == <<"bcrypt">> \o password

NewUser(email, passwordHash, username) ==
    [id |-> NewUserID(email), email |-> email, username |-> username,
     password_hash |-> passwordHash]

\* INSERT INTO users: refused when a row has the email or the username.
CreateOk(user) ==
    \A u \in users : u.email # user.email /\ u.username # user.username

\* ------------------------------------------------------ dto.RegisterReq
\* The shape of a request: the email is "empty", "malformed" or "valid", then
\* whether the username and the password meet their rules.
Shapes == {"empty", "malformed", "valid"} \X BOOLEAN \X BOOLEAN

ValidShape == <<"valid", TRUE, TRUE>>

Password(k) == <<"password", k>>

NoRequest == [email |-> 0, username |-> 0, password |-> <<>>, shape |-> <<>>]

RegisterRequest(email, username, shape) ==
    [email |-> email, username |-> username, password |-> Password(email),
     shape |-> shape]

LoginRequest(email, password, shape) ==
    [email |-> email, username |-> 0, password |-> password, shape |-> shape]

\* bcrypt.CompareHashAndPassword(hash, password) = nil
CompareHashAndPassword(hash, password) == hash = GenerateFromPassword(password)

\* Validate with the username rule tried before the email rules.
ValidateUsernameFirst(shape) ==
    IF ~shape[2] THEN ErrInvalidUsername
    ELSE IF shape[1] = "empty" THEN ErrEmailIsRequired
    ELSE IF shape[1] = "malformed" THEN ErrInvalidEmail
    ELSE IF ~shape[3] THEN ErrInvalidPassword
    ELSE Nil

Validate(shape) ==
    IF shape[1] = "empty" THEN ErrEmailIsRequired
    ELSE IF shape[1] = "malformed" THEN ErrInvalidEmail
    ELSE IF ~shape[2] THEN ErrInvalidUsername
    ELSE IF ~shape[3] THEN ErrInvalidPassword
    ELSE Nil

\* dto.LoginReq.Validate: the rules of the email and of the password.
ValidateLogin(shape) == Validate(<<shape[1], TRUE, shape[3]>>)

NewSessionID(jti) == jti

\* --------------------------------------------------------------- requests
\* A request in flight: the operation, the store call it has reached, and
\* its locals (the bearer presented, the identity, the session record, the
\* refresh bearer it will return).  late and cut are history: the bearer
\* presented had been consumed, respectively covered by a RevokeAllUserTokens
\* that returned success, when the request started.
Request(op, pc) ==
    [op |-> op, pc |-> pc, tok |-> 0, uid |-> 0, rec |-> 0, late |-> FALSE,
     cut |-> FALSE, out |-> 0, req |-> NoRequest]

NoResponse ==
    [op |-> "None", res |-> "", tok |-> 0, uid |-> 0, rec |-> 0,
     late |-> FALSE, cut |-> FALSE, out |-> 0, req |-> NoRequest,
     status |-> <<>>]

Resp(op, res) == [NoResponse EXCEPT !.op = op, !.res = res]

\* What the caller of request `pr` is handed when it ends with `res`.
RespOf(pr, res) ==
    [op |-> pr.op, res |-> res, tok |-> pr.tok, uid |-> pr.uid,
     rec |-> pr.rec, late |-> pr.late, cut |-> pr.cut,
     out |-> IF res = Nil THEN pr.out ELSE 0, req |-> pr.req,
     status |-> <<>>]

InFlight == BagToSet(inflight)

Started(pr) == inflight (+) SetToBag({pr})

Ended(pr) == inflight (-) SetToBag({pr})

\* `returned` only observes: it is read by no handler, so a response is taken
\* off (Deliver) before the next step of any request.
Delivered == returned = NoResponse

\* No function applied yet.
NoCall == [fn |-> "None"]

\* main after `go grpcServer.Serve(lis)`: the server accepts requests, the
\* database handle is open, no signal has arrived.
Serving == [phase |-> "serving", db |-> "open", elapsed |-> 0]

\* grpcServer accepts new requests until GracefulStop is called.
Accepting == server.phase \in {"serving", "signaled"}

CanStart ==
    /\ Delivered
    /\ BagCardinality(inflight) < MaxInFlight
    /\ Accepting

\* RateLimitInterceptor(maxRequests, window), as the documentation installs
\* it, with the numbers scaled down.
maxRequests == 2
window == 1

\* info.FullMethod of the calls that go through the interceptor.
FullMethods == {"Register", "Login"}

\* The goroutines in which grpc runs the interceptor, one for each call.
Goroutines == 1..MaxInFlight

\* A goroutine that is not inside the interceptor.
Outside == [pc |-> "outside", method |-> "", count |-> 0]

\* make(map[string]int): every key reads as 0.
NoCounts == [m \in FullMethods |-> 0]

\* The closure after RateLimitInterceptor has returned it at time t.
\* admitted counts, for each method, the calls handed to the handler since
\* lastReset (up to one more than maxRequests), and fatal tells that the
\* runtime has stopped the process.
NewRateLimiter(t) ==
    [requestCounts |-> NoCounts, lastReset |-> t,
     calls |-> [g \in Goroutines |-> Outside],
     admitted |-> NoCounts, rejected |-> FALSE, fatal |-> FALSE]

Init ==
    /\ users = {}
    /\ refresh_tokens = {}
    /\ bearers = <<>>
    /\ now = 1
    /\ inflight = EmptyBag
    /\ returned = NoResponse
    /\ consumed = {}
    /\ revokedAll = {}
    /\ call = NoCall
    /\ server = Serving
    /\ rateLimiter = NewRateLimiter(1)

\* ------------------------------------------------- tx.TransactionManager
\* The error WithTransaction returns: that of the closure, after a rollback,
\* or that of the commit.  It rolls back and commits what was written through
\* its handle; the closure of Register writes through the repositories, which
\* hold the pool, so each of its INSERTs is committed by the statement itself.
WithTransaction(err, commitOk) ==
    IF err # Nil THEN err ELSE IF commitOk THEN Nil ELSE ErrStore

\* ---------------------------------------------------- UserService.Register
\* req.Validate, bcrypt.GenerateFromPassword, NewUser, user.IsValid, then
\* inside WithTransaction userRepo.Create(ctx, user).  `in` is the health of
\* the store.
RegisterReq(req, in) ==
    LET err == Validate(req.shape)
        user == NewUser(req.email, GenerateFromPassword(req.password),
                        req.username)
    IN
    /\ IF err # Nil THEN
            /\ returned' = [Resp("Register", err) EXCEPT !.req = req]
            /\ UNCHANGED <<users, inflight>>
       ELSE IF in = "fault" THEN
            /\ returned' = [Resp("Register", WithTransaction(ErrStore, TRUE))
                                EXCEPT !.req = req]
            /\ UNCHANGED <<users, inflight>>
       ELSE IF ~CreateOk(user) THEN
            /\ returned' = [Resp("Register", WithTransaction(ErrDuplicateKey, TRUE))
                                EXCEPT !.req = req]
            /\ UNCHANGED <<users, inflight>>
       ELSE
            /\ users' = users \cup {user}
            /\ inflight' = Started([Request("Register", "reg_tokens")
                                        EXCEPT !.uid = user.id, !.req = req])
            /\ UNCHANGED returned
    /\ UNCHANGED <<refresh_tokens, bearers, now, consumed, revokedAll, call, server, rateLimiter>>

\* Principal k registers with the email, the username and the password
\* numbered k, all well-formed.
Register ==
    /\ CanStart
    /\ \E email \in Emails, in \in {"fault", "ok"} :
        RegisterReq(RegisterRequest(email, email, ValidShape), in)

\* A caller registers with any email, any username and any shape of request.
RegisterAny ==
    /\ CanStart
    /\ \E email \in Names, username \in Names, shape \in Shapes,
          in \in {"fault", "ok"} :
        RegisterReq(RegisterRequest(email, username, shape), in)

\* CreateToken, CreateRefreshToken, GenerateTokenHash, NewRefreshToken,
\* refreshTokenRepo.Create(ctx, record), the end of the closure, and the
\* commit or rollback of WithTransaction.
RegisterTokensWithin(pr, maxTokens) ==
    LET jti == Len(bearers) + 1
        exp == RefreshTokenDuration + now
        hash == GenerateTokenHash(jti)[2]
        err == NewRefreshTokenErr(pr.uid, hash, exp, now)
    IN
    /\ Delivered
    /\ pr.pc = "reg_tokens"
    /\ \E outcome \in {"ok", "maker", "store", "commit"} :
        IF outcome = "maker" THEN
            /\ returned' = RespOf(pr, WithTransaction(ErrTokenMaker, TRUE))
            /\ UNCHANGED <<refresh_tokens, bearers>>
        ELSE
            /\ jti <= maxTokens
            /\ bearers' = Append(bearers,
                    NewPayload(Username(pr.uid), RefreshTokenDuration, now, jti))
            /\ IF err # Nil \/ outcome = "store" THEN
                    /\ returned' = RespOf(pr, WithTransaction(
                            IF err # Nil THEN err ELSE ErrStore, TRUE))
                    /\ UNCHANGED refresh_tokens
               ELSE
                    /\ refresh_tokens' = refresh_tokens \cup
                            {NewRefreshToken(NewSessionID(jti), pr.uid, hash, exp)}
                    /\ returned' = RespOf(
                            [pr EXCEPT !.rec = NewSessionID(jti), !.out = jti],
                            WithTransaction(Nil, outcome = "ok"))
    /\ inflight' = Ended(pr)
    /\ UNCHANGED <<users, now, consumed, revokedAll, call, server, rateLimiter>>

\* The step of Register with the bound of the model on the tokens minted.
RegisterTokens(pr) == RegisterTokensWithin(pr, MaxTokens)

\* ------------------------------------------------------- UserService.Login
\* req.Validate, userRepo.GetByEmail, bcrypt.CompareHashAndPassword.
\* Login answering a failed lookup with ErrUserNotFound.
LoginErrRevealing(uid, passwordOk) ==
    IF uid = 0 THEN ErrUserNotFound
    ELSE IF ~passwordOk THEN ErrInvalidCredentials
    ELSE Nil

\* The error of Login after GetByEmail (uid = 0 when it failed) and
\* CompareHashAndPassword.
LoginErr(uid, passwordOk) ==
    IF uid = 0 THEN ErrInvalidCredentials
    ELSE IF ~passwordOk THEN ErrInvalidCredentials
    ELSE Nil

LoginReq(req, in) ==
    LET invalid == ValidateLogin(req.shape)
        uid == IF in = "fault" THEN 0 ELSE GetByEmail(req.email)
        err == LoginErr(uid, uid # 0 /\
                    CompareHashAndPassword(PasswordHash(uid), req.password))
    IN
    /\ IF invalid # Nil THEN
            /\ returned' = [Resp("Login", invalid) EXCEPT !.req = req]
            /\ UNCHANGED inflight
       ELSE IF err # Nil THEN
            /\ returned' = [Resp("Login", err) EXCEPT !.req = req]
            /\ UNCHANGED inflight
       ELSE
            /\ inflight' = Started([Request("Login", "login_tokens")
                                        EXCEPT !.uid = uid, !.req = req])
            /\ UNCHANGED returned
    /\ UNCHANGED <<users, refresh_tokens, bearers, now, consumed, revokedAll, call, server, rateLimiter>>

\* Principal k logs in with its email and its password.
Login ==
    /\ CanStart
    /\ \E email \in Emails, in \in {"fault", "ok"} :
        LoginReq(LoginRequest(email, Password(email), ValidShape), in)

\* A caller logs in with any email, the password of its principal or another
\* one, and any shape of request.
LoginAny ==
    /\ CanStart
    /\ \E email \in Names, shape \in {sh \in Shapes : sh[2]},
          in \in {"fault", "ok"} :
        \E password \in {Password(email), Password(0)} :
            LoginReq(LoginRequest(email, password, shape), in)

\* LoginTokens returning the token pair when refreshTokenRepo.Create fails.
LoginTokensReturningPair(pr) ==
    LET jti == Len(bearers) + 1
        exp == RefreshTokenDuration + now
        hash == GenerateTokenHash(jti)[2]
        err == NewRefreshTokenErr(pr.uid, hash, exp, now)
    IN
    /\ Delivered
    /\ pr.pc = "login_tokens"
    /\ \E outcome \in {"ok", "maker", "store"} :
        IF outcome = "maker" THEN
            /\ returned' = RespOf(pr, ErrTokenMaker)
            /\ UNCHANGED <<refresh_tokens, bearers>>
        ELSE
            /\ jti <= MaxTokens
            /\ bearers' = Append(bearers,
                    NewPayload(Username(pr.uid), RefreshTokenDuration, now, jti))
            /\ IF err # Nil THEN
                    /\ returned' = RespOf(pr, err)
                    /\ UNCHANGED refresh_tokens
               ELSE IF outcome = "store" THEN
                    /\ returned' = RespOf([pr EXCEPT !.out = jti], Nil)
                    /\ UNCHANGED refresh_tokens
               ELSE
                    /\ refresh_tokens' = refresh_tokens \cup
                            {NewRefreshToken(NewSessionID(jti), pr.uid, hash, exp)}
                    /\ returned' = RespOf([pr EXCEPT !.rec = NewSessionID(jti),
                                                     !.out = jti], Nil)
    /\ inflight' = Ended(pr)
    /\ UNCHANGED <<users, now, consumed, revokedAll, call, server, rateLimiter>>

\* CreateToken, CreateRefreshToken, GenerateTokenHash, NewRefreshToken,
\* refreshTokenRepo.Create.
LoginTokensWithin(pr, maxTokens) ==
    LET jti == Len(bearers) + 1
        exp == RefreshTokenDuration + now
        hash == GenerateTokenHash(jti)[2]
        err == NewRefreshTokenErr(pr.uid, hash, exp, now)
    IN
    /\ Delivered
    /\ pr.pc = "login_tokens"
    /\ \E outcome \in {"ok", "maker", "store"} :
        IF outcome = "maker" THEN
            /\ returned' = RespOf(pr, ErrTokenMaker)
            /\ UNCHANGED <<refresh_tokens, bearers>>
        ELSE
            /\ jti <= maxTokens
            /\ bearers' = Append(bearers,
                    NewPayload(Username(pr.uid), RefreshTokenDuration, now, jti))
            /\ IF err # Nil \/ outcome = "store" THEN
                    /\ returned' = RespOf(pr, IF err # Nil THEN err ELSE ErrStore)
                    /\ UNCHANGED refresh_tokens
               ELSE
                    /\ refresh_tokens' = refresh_tokens \cup
                            {NewRefreshToken(NewSessionID(jti), pr.uid, hash, exp)}
                    /\ returned' = RespOf([pr EXCEPT !.rec = NewSessionID(jti),
                                                     !.out = jti], Nil)
    /\ inflight' = Ended(pr)
    /\ UNCHANGED <<users, now, consumed, revokedAll, call, server, rateLimiter>>

\* The step of Login with the bound of the model on the tokens minted.
LoginTokens(pr) == LoginTokensWithin(pr, MaxTokens)

\* ------------------------------------------------ UserService.RefreshToken
\* What a caller may present: the empty string, a string the maker did not
\* produce, or a minted bearer.
Presented == {-1, 0} \cup (1..Len(bearers))

\* The empty check, VerifyRefreshToken, HashToken, GetByTokenHash, IsValid,
\* userRepo.GetByID and CreateToken.  The users row of a stored session is
\* never removed, so reading it in the same step as the session loses no
\* interleaving.
RefreshToken ==
    /\ CanStart
    /\ \E b \in Presented, fault \in {"none", "lookup", "user", "maker"} :
        LET id == IF fault = "lookup" THEN 0 ELSE GetByTokenHash(HashToken(b))
            valid == IsValid(Row(id), now)
            uid == IF fault = "user" THEN 0 ELSE GetByID(Row(id).user_id)
            start == [Request("RefreshToken", "ref_revoke")
                        EXCEPT !.tok = b, !.late = b \in consumed,
                               !.cut = b \in revokedAll]
            verified == b # 0 /\ VerifyRefreshToken(b, now) = Nil
            err == IF ~verified THEN ErrInvalidToken
                   ELSE IF id = 0 THEN ErrInvalidToken
                   ELSE IF valid # Nil THEN valid
                   ELSE IF uid = 0 THEN ErrUserNotFound
                   ELSE IF fault = "maker" THEN ErrTokenMaker
                   ELSE Nil
            found == IF verified THEN id ELSE 0
        IN
        IF err # Nil THEN
            /\ returned' = RespOf([start EXCEPT !.rec = found], err)
            /\ UNCHANGED inflight
        ELSE
            /\ inflight' = Started([start EXCEPT !.rec = id])
            /\ UNCHANGED returned
    /\ UNCHANGED <<users, refresh_tokens, bearers, now, consumed, revokedAll, call, server, rateLimiter>>

\* RefreshTokenRepository.RevokeByID(id): the error it returns, and the
\* table it leaves.
RevokeByIDErr(id, fault) ==
    IF fault THEN ErrStore
    ELSE IF Cardinality(RevokeByIDRows(id)) = 0 THEN ErrTokenNotFound
    ELSE Nil

RevokeByID(id, fault) ==
    IF fault THEN refresh_tokens ELSE Revoke(RevokeByIDRows(id))

\* refreshTokenRepo.RevokeByID(ctx, refreshTokenRecord.ID), and the return
\* of the RefreshTokenResp, which carries the access token alone.
RefreshRevoke(pr) ==
    /\ Delivered
    /\ pr.pc = "ref_revoke"
    /\ \E fault \in BOOLEAN :
        LET err == RevokeByIDErr(pr.rec, fault) IN
        /\ refresh_tokens' = RevokeByID(pr.rec, fault)
        /\ returned' = RespOf(pr, err)
        /\ consumed' = IF err = Nil THEN consumed \cup {pr.tok} ELSE consumed
    /\ inflight' = Ended(pr)
    /\ UNCHANGED <<users, bearers, now, revokedAll, call, server, rateLimiter>>

\* ------------------------------------------------- UserService.RevokeToken
\* The empty check, HashToken, GetByTokenHash.
RevokeToken ==
    /\ CanStart
    /\ \E b \in Presented, fault \in BOOLEAN :
        LET id == IF fault THEN 0 ELSE GetByTokenHash(HashToken(b))
            start == [Request("RevokeToken", "rev_revoke") EXCEPT !.tok = b]
        IN
        IF b = 0 \/ id = 0 THEN
            /\ returned' = RespOf(start, ErrInvalidToken)
            /\ UNCHANGED inflight
        ELSE
            /\ inflight' = Started([start EXCEPT !.rec = id])
            /\ UNCHANGED returned
    /\ UNCHANGED <<users, refresh_tokens, bearers, now, consumed, revokedAll, call, server, rateLimiter>>

\* return s.refreshTokenRepo.RevokeByID(ctx, refreshTokenRecord.ID)
RevokeRevoke(pr) ==
    /\ Delivered
    /\ pr.pc = "rev_revoke"
    /\ \E fault \in BOOLEAN :
        /\ refresh_tokens' = RevokeByID(pr.rec, fault)
        /\ returned' = RespOf(pr, RevokeByIDErr(pr.rec, fault))
    /\ inflight' = Ended(pr)
    /\ UNCHANGED <<users, bearers, now, consumed, revokedAll, call, server, rateLimiter>>

\* ----------------------------------------- UserService.RevokeAllUserTokens
RevokeByUserIDErr(userID, fault) ==
    IF fault THEN ErrStore
    ELSE IF Cardinality(RevokeByUserIDRows(userID)) = 0 THEN ErrTokenNotFound
    ELSE Nil

\* RevokeByUserID with an UPDATE that sets updated_at alone.
RevokeByUserIDTouching(userID, fault) == refresh_tokens

RevokeByUserID(userID, fault) ==
    IF fault THEN refresh_tokens ELSE Revoke(RevokeByUserIDRows(userID))

\* The bearers minted so far for the username of the owner.
IssuedTo(userID) ==
    {b \in 1..Len(bearers) :
        GetByID(userID) # 0 /\ bearers[b].sub = Username(userID)}

RevokeAllUserTokens ==
    /\ CanStart
    /\ \E userID \in Emails, fault \in BOOLEAN :
        /\ refresh_tokens' = RevokeByUserID(userID, fault)
        /\ returned' = [Resp("RevokeAllUserTokens",
                             RevokeByUserIDErr(userID, fault))
                            EXCEPT !.uid = userID]
        /\ revokedAll' =
                IF RevokeByUserIDErr(userID, fault) = Nil
                THEN revokedAll \cup IssuedTo(userID)
                ELSE revokedAll
    /\ UNCHANGED <<users, bearers, now, inflight, consumed, call, server, rateLimiter>>

\* ---------------------------------------- UserService.CleanupExpiredTokens
DeleteExpired(fault) ==
    IF fault THEN refresh_tokens ELSE refresh_tokens \ DeleteExpiredRows(now)

CleanupExpiredTokens ==
    /\ CanStart
    /\ \E fault \in BOOLEAN :
        /\ refresh_tokens' = DeleteExpired(fault)
        /\ returned' = Resp("CleanupExpiredTokens",
                            IF fault THEN ErrStore ELSE Nil)
    /\ UNCHANGED <<users, bearers, now, inflight, consumed, revokedAll, call, server, rateLimiter>>

\* -------------------------------------------------------------- the clock
Tick ==
    /\ Delivered
    /\ now < MaxNow
    /\ now' = now + 1
    /\ UNCHANGED <<users, refresh_tokens, bearers, inflight, returned, consumed, revokedAll, call, server,
                    rateLimiter>>

\* ------------------------------------------------ UnaryServerInterceptor
\* The handler of a request in flight panics, and the deferred recover() of
\* the interceptor catches it.
HandlerPanic(pr) ==
    /\ Delivered
    /\ returned' = RespOf(pr, Panic)
    /\ inflight' = Ended(pr)
    /\ UNCHANGED <<users, refresh_tokens, bearers, now, consumed, revokedAll, call, server, rateLimiter>>

\* The response reaches its caller.
Deliver ==
    /\ ~Delivered
    /\ returned' = NoResponse
    /\ UNCHANGED <<users, refresh_tokens, bearers, now, inflight, consumed, revokedAll, call, server,
                    rateLimiter>>

Next ==
    \/ Register
    \/ \E pr \in InFlight : RegisterTokens(pr)
    \/ Login
    \/ \E pr \in InFlight : LoginTokens(pr)
    \/ RefreshToken
    \/ \E pr \in InFlight : RefreshRevoke(pr)
    \/ RevokeToken
    \/ \E pr \in InFlight : RevokeRevoke(pr)
    \/ RevokeAllUserTokens
    \/ CleanupExpiredTokens
    \/ \E pr \in InFlight : HandlerPanic(pr)
    \/ Tick
    \/ Deliver

Spec == Init /\ [][Next]_vars

\* Registration followed by logins at the same time, with room for the
\* tokens of both.
MaxMints == MaxTokens + 1

NextPair ==
    \/ Register
    \/ \E pr \in InFlight : RegisterTokensWithin(pr, MaxMints)
    \/ Login
    \/ \E pr \in InFlight : LoginTokensWithin(pr, MaxMints)
    \/ Deliver

SpecPair == Init /\ [][NextPair]_vars

\* The five operations that read or write sessions, with room for two
\* sessions that live at the same time.
NextSessions ==
    \/ Register
    \/ \E pr \in InFlight : RegisterTokensWithin(pr, MaxMints)
    \/ Login
    \/ \E pr \in InFlight : LoginTokensWithin(pr, MaxMints)
    \/ RefreshToken
    \/ \E pr \in InFlight : RefreshRevoke(pr)
    \/ RevokeToken
    \/ \E pr \in InFlight : RevokeRevoke(pr)
    \/ RevokeAllUserTokens
    \/ Deliver

SpecSessions == Init /\ [][NextSessions]_vars

\* Registration and login with requests of every shape, and with emails and
\* usernames chosen independently.
\* The six operations of UserServiceServer.
Operations ==
    {"Register", "Login", "RefreshToken", "RevokeToken", "RevokeAllUserTokens",
     "CleanupExpiredTokens"}

\* HandleContextError with the operation left out of the message.
HandleContextErrorUnnamed(ctx, operation) ==
    IF ctx = Nil THEN <<>>
    ELSE IF ctx = ContextCanceled
        THEN <<"Canceled", "", "operation was canceled">>
    ELSE IF ctx = ContextDeadlineExceeded
        THEN <<"DeadlineExceeded", "", "operation deadline exceeded">>
    ELSE <<"Internal", "", "context error">>

\* HandleContextError(ctx, operation): <<>> (nil) while ctx is not done, else
\* the status built from ctx.Err(): its code, and the message "%s: <text>"
\* as the operation and the text.
HandleContextError(ctx, operation) ==
    IF ctx = Nil THEN <<>>
    ELSE IF ctx = ContextCanceled
        THEN <<"Canceled", operation, "operation was canceled">>
    ELSE IF ctx = ContextDeadlineExceeded
        THEN <<"DeadlineExceeded", operation, "operation deadline exceeded">>
    ELSE <<"Internal", operation, "context error">>

\* A handler entered with a context that is already done: it returns the
\* status of HandleContextError before it reads the request or calls the
\* service.
EnterDone ==
    /\ Delivered
    /\ Accepting
    /\ \E operation \in Operations :
        \E ctx \in {ContextCanceled, ContextDeadlineExceeded} :
            LET err == HandleContextError(ctx, operation)
            IN  /\ err # <<>>
                /\ returned' = [Resp(operation, ctx) EXCEPT !.status = err]
    /\ UNCHANGED <<users, refresh_tokens, bearers, now, inflight, consumed, revokedAll, call, server,
                    rateLimiter>>

NextEntry ==
    \/ EnterDone
    \/ RegisterAny
    \/ \E pr \in InFlight : RegisterTokens(pr)
    \/ LoginAny
    \/ \E pr \in InFlight : LoginTokens(pr)
    \/ Deliver

SpecEntry == Init /\ [][NextEntry]_vars

\* ------------------------------------------------------------------- main
\* sig := <-sigChan, then context.WithTimeout(context.Background(),
\* shutdownTimeout): the timeout starts to run.
Signal ==
    /\ server.phase = "serving"
    /\ server' = [server EXCEPT !.phase = "signaled", !.elapsed = 0]
    /\ UNCHANGED <<users, refresh_tokens, bearers, now, inflight, returned,
                   consumed, revokedAll, call, rateLimiter>>

\* grpcServer.GracefulStop() is called: no new request is accepted.
GracefulStop ==
    /\ server.phase = "signaled"
    /\ server' = [server EXCEPT !.phase = "stopping"]
    /\ UNCHANGED <<users, refresh_tokens, bearers, now, inflight, returned,
                   consumed, revokedAll, call, rateLimiter>>

\* grpcServer.Stop(): returns without waiting for the pending requests.
StopReturns(pending) == TRUE

\* When grpcServer.GracefulStop() returns: it blocks until all the pending
\* requests are finished.  The context of the timeout was discarded
\* (`_, cancel :=`), so nothing else ends the wait.
GracefulStopReturns(pending) == pending = EmptyBag

GracefulStopped ==
    /\ server.phase = "stopping"
    /\ GracefulStopReturns(inflight)
    /\ server' = [server EXCEPT !.phase = "stopped"]
    /\ UNCHANGED <<users, refresh_tokens, bearers, now, inflight, returned,
                   consumed, revokedAll, call, rateLimiter>>

\* dbConn.Close(), then main returns.
CloseDatabase ==
    /\ server.phase = "stopped"
    /\ server' = [server EXCEPT !.phase = "completed", !.db = "closed"]
    /\ UNCHANGED <<users, refresh_tokens, bearers, now, inflight, returned,
                   consumed, revokedAll, call, rateLimiter>>

\* Time passes after the signal, observed up to one tick past the timeout.
ShutdownTick ==
    /\ server.phase \in {"signaled", "stopping", "stopped"}
    /\ server.elapsed <= GracefulShutdownTimeout
    /\ server' = [server EXCEPT !.elapsed = @ + 1]
    /\ UNCHANGED <<users, refresh_tokens, bearers, now, inflight, returned,
                   consumed, revokedAll, call, rateLimiter>>

\* The server with Register and Login calls while main goes through its
\* shutdown.
NextShutdown ==
    \/ Register
    \/ \E pr \in InFlight : RegisterTokens(pr)
    \/ Login
    \/ \E pr \in InFlight : LoginTokens(pr)
    \/ Deliver
    \/ Signal
    \/ GracefulStop
    \/ GracefulStopped
    \/ CloseDatabase
    \/ ShutdownTick

SpecShutdown == Init /\ [][NextShutdown]_vars

\* ------------------------------------------------------------ ErrorMapper
\* MapErrorWithContext without the branch of isDatabaseConstraintError.
MapErrorWithContextNoConstraint(err) ==
    IF err \in {ErrInvalidEmail, ErrInvalidUsername, ErrInvalidPassword}
        THEN "InvalidArgument"
    ELSE IF err = ErrUserNotFound THEN "NotFound"
    ELSE IF err \in {ErrInvalidToken, ErrTokenExpired, ErrTokenRevoked}
        THEN "Unauthenticated"
    ELSE IF err = ErrTokenNotFound THEN "NotFound"
    ELSE IF err = ErrInvalidCredentials THEN "Unauthenticated"
    ELSE IF err = ErrEmailIsRequired THEN "InvalidArgument"
    ELSE IF err = ContextCanceled THEN "Canceled"
    ELSE IF err = ContextDeadlineExceeded THEN "DeadlineExceeded"
    ELSE "Internal"

\* MapErrorWithContext: the status code the server hands back for an error
\* of the service.
MapErrorWithContext(err) ==
    IF err \in {ErrInvalidEmail, ErrInvalidUsername, ErrInvalidPassword}
        THEN "InvalidArgument"
    ELSE IF err = ErrUserNotFound THEN "NotFound"
    ELSE IF err \in {ErrInvalidToken, ErrTokenExpired, ErrTokenRevoked}
        THEN "Unauthenticated"
    ELSE IF err = ErrTokenNotFound THEN "NotFound"
    ELSE IF err = ErrInvalidCredentials THEN "Unauthenticated"
    ELSE IF err = ErrEmailIsRequired THEN "InvalidArgument"
    ELSE IF err = ErrDuplicateKey THEN "AlreadyExists"
    ELSE IF err = ContextCanceled THEN "Canceled"
    ELSE IF err = ContextDeadlineExceeded THEN "DeadlineExceeded"
    ELSE "Internal"

\* The message of the status MapErrorWithContext builds in its default
\* branch, "%s: internal server error - %v" as its parts: the operation, the
\* fixed text and the text of err.
InternalMessage(err, operation) ==
    <<operation, "internal server error - ", err>>

\* What UnaryServerInterceptor returns for the outcome of its handler: the
\* response (hasResp) and the status code of the error, "OK" for a nil error.
\* After a recovered panic the function returns the zero values of its
\* unnamed results.
UnaryServerInterceptor(res) ==
    IF res = Panic THEN [hasResp |-> FALSE, code |-> "OK"]
    ELSE IF res # Nil THEN [hasResp |-> FALSE, code |-> MapErrorWithContext(res)]
    ELSE [hasResp |-> TRUE, code |-> "OK"]

\* The texts isDatabaseConstraintError looks for, each as an error of a
\* store that holds it.
ConstraintErrors ==
    {"UNIQUE constraint failed: users.email", ErrDuplicateKey,
     "violates unique constraint", "duplicate entry", "resource already exists"}

isDatabaseConstraintError(err) == err # Nil /\ err \in ConstraintErrors

isContextError(err) ==
    err # Nil /\ err \in {ContextCanceled, ContextDeadlineExceeded}

mapContextError(err) ==
    IF err = ContextCanceled THEN [code |-> "Canceled", message |-> <<"operation was canceled">>]
    ELSE IF err = ContextDeadlineExceeded
        THEN [code |-> "DeadlineExceeded", message |-> <<"operation deadline exceeded">>]
    ELSE [code |-> "Internal", message |-> <<"context error">>]

mapContextErrorWithContext(err, operation) ==
    IF err = ContextCanceled
        THEN [code |-> "Canceled", message |-> <<operation, ": ", "operation was canceled">>]
    ELSE IF err = ContextDeadlineExceeded
        THEN [code |-> "DeadlineExceeded",
              message |-> <<operation, ": ", "operation deadline exceeded">>]
    ELSE [code |-> "Internal", message |-> <<operation, ": ", "context error">>]

\* MapError: the status, its code and its message as the parts of the
\* format.
MapError(err) ==
    IF err = ErrInvalidEmail
        THEN [code |-> "InvalidArgument", message |-> <<"invalid email format">>]
    ELSE IF err = ErrInvalidUsername
        THEN [code |-> "InvalidArgument", message |-> <<"invalid username">>]
    ELSE IF err = ErrInvalidPassword
        THEN [code |-> "InvalidArgument", message |-> <<"invalid password">>]
    ELSE IF err = ErrUserNotFound
        THEN [code |-> "NotFound", message |-> <<"user not found">>]
    ELSE IF err = ErrUserExists
        THEN [code |-> "AlreadyExists", message |-> <<"user already exists">>]
    ELSE IF err = ErrInvalidToken
        THEN [code |-> "Unauthenticated", message |-> <<"invalid token">>]
    ELSE IF err = ErrTokenExpired
        THEN [code |-> "Unauthenticated", message |-> <<"token expired">>]
    ELSE IF err = ErrTokenRevoked
        THEN [code |-> "Unauthenticated", message |-> <<"token revoked">>]
    ELSE IF err = ErrTokenNotFound
        THEN [code |-> "NotFound", message |-> <<"token not found">>]
    ELSE IF err = ErrInvalidCredentials
        THEN [code |-> "Unauthenticated", message |-> <<"invalid credentials">>]
    ELSE IF err = ErrEmailIsRequired
        THEN [code |-> "InvalidArgument", message |-> <<"email is required">>]
    ELSE IF err = TokenErrInvalidToken
        THEN [code |-> "Unauthenticated", message |-> <<"invalid token">>]
    ELSE IF err = TokenErrExpiredToken
        THEN [code |-> "Unauthenticated", message |-> <<"token expired">>]
    ELSE IF isDatabaseConstraintError(err)
        THEN [code |-> "AlreadyExists", message |-> <<"resource already exists">>]
    ELSE IF isContextError(err) THEN mapContextError(err)
    ELSE [code |-> "Internal", message |-> <<"internal server error: ", err>>]

\* MapErrorWithContext with the expired token of package token answered as
\* an unknown error.
MapErrorWithContextStatusNoTokenExpired(err, operation) ==
    IF err = TokenErrExpiredToken
        THEN [code |-> "Internal",
              message |-> <<operation, ": ", "internal server error - ", err>>]
    ELSE [code |-> MapError(err).code,
          message |-> <<operation, ": ">> \o MapError(err).message]

\* MapErrorWithContext: the whole status.
MapErrorWithContextStatus(err, operation) ==
    IF err = ErrInvalidEmail
        THEN [code |-> "InvalidArgument",
              message |-> <<operation, ": ", "invalid email format">>]
    ELSE IF err = ErrInvalidUsername
        THEN [code |-> "InvalidArgument",
              message |-> <<operation, ": ", "invalid username">>]
    ELSE IF err = ErrInvalidPassword
        THEN [code |-> "InvalidArgument",
              message |-> <<operation, ": ", "invalid password">>]
    ELSE IF err = ErrUserNotFound
        THEN [code |-> "NotFound", message |-> <<operation, ": ", "user not found">>]
    ELSE IF err = ErrUserExists
        THEN [code |-> "AlreadyExists",
              message |-> <<operation, ": ", "user already exists">>]
    ELSE IF err = ErrInvalidToken
        THEN [code |-> "Unauthenticated",
              message |-> <<operation, ": ", "invalid token">>]
    ELSE IF err = ErrTokenExpired
        THEN [code |-> "Unauthenticated",
              message |-> <<operation, ": ", "token expired">>]
    ELSE IF err = ErrTokenRevoked
        THEN [code |-> "Unauthenticated",
              message |-> <<operation, ": ", "token revoked">>]
    ELSE IF err = ErrTokenNotFound
        THEN [code |-> "NotFound", message |-> <<operation, ": ", "token not found">>]
    ELSE IF err = ErrInvalidCredentials
        THEN [code |-> "Unauthenticated",
              message |-> <<operation, ": ", "invalid credentials">>]
    ELSE IF err = ErrEmailIsRequired
        THEN [code |-> "InvalidArgument",
              message |-> <<operation, ": ", "email is required">>]
    ELSE IF err = TokenErrInvalidToken
        THEN [code |-> "Unauthenticated",
              message |-> <<operation, ": ", "invalid token">>]
    ELSE IF err = TokenErrExpiredToken
        THEN [code |-> "Unauthenticated",
              message |-> <<operation, ": ", "token expired">>]
    ELSE IF isDatabaseConstraintError(err)
        THEN [code |-> "AlreadyExists",
              message |-> <<operation, ": ", "resource already exists">>]
    ELSE IF isContextError(err) THEN mapContextErrorWithContext(err, operation)
    ELSE [code |-> "Internal",
          message |-> <<operation, ": ", "internal server error - ", err>>]

\* The errors handed to the mapper: those it knows, those of a store, and
\* errors it has no case for.
MappedErrors ==
    {ErrInvalidEmail, ErrInvalidUsername, ErrInvalidPassword, ErrUserNotFound,
     ErrUserExists, ErrInvalidToken, ErrTokenExpired, ErrTokenRevoked,
     ErrTokenNotFound, ErrInvalidCredentials, ErrEmailIsRequired,
     TokenErrInvalidToken, TokenErrExpiredToken, ContextCanceled,
     ContextDeadlineExceeded, ErrStore, ErrTokenMaker}
    \cup ConstraintErrors

\* ------------------------------------------------------- package token
\* A token string, by what a verifier can tell about it: the format, whether
\* it parses (form), the algorithm its header declares, the key under which
\* its signature or its authentication tag verifies ("none": under no key),
\* and the claims it carries.
Token(variant, alg, key, claims) ==
    [variant |-> variant, form |-> "ok", alg |-> alg, key |-> key,
     claims |-> claims]

\* No payload returned.
NoPayload == <<>>

\* The signing methods the jwt package has registered, and those of type
\* *jwt.SigningMethodHMAC among them.
SigningMethods ==
    {"HS256", "HS384", "HS512", "RS256", "ES256", "PS256", "EdDSA", "none"}

SigningMethodHMAC == {"HS256", "HS384", "HS512"}

\* JWTTokenMaker.CreateToken
JWTCreateToken(secretKey, username, duration, t, id) ==
    Token("jwt", "HS256", secretKey, NewPayload(username, duration, t, id))

\* JWTTokenMaker.VerifyToken without the test of the method in keyFunc.
JWTVerifyTokenAnyMethod(secretKey, token, t) ==
    IF token.variant # "jwt" \/ token.form # "ok"
        THEN [err |-> TokenErrInvalidToken, payload |-> NoPayload]
    ELSE IF token.alg \notin SigningMethods
        THEN [err |-> TokenErrInvalidToken, payload |-> NoPayload]
    ELSE IF token.alg # "none" /\ token.key # secretKey
        THEN [err |-> TokenErrInvalidToken, payload |-> NoPayload]
    ELSE IF t >= token.claims.exp
        THEN [err |-> TokenErrExpiredToken, payload |-> NoPayload]
    ELSE [err |-> Nil, payload |-> <<token.claims>>]

\* JWTTokenMaker.VerifyToken: jwt.ParseWithClaims splits the string, looks
\* the declared method up, calls keyFunc (which refuses every method that is
\* not a *jwt.SigningMethodHMAC), verifies the signature with the key, then
\* validates the claims, where a token is expired from its exp on.  Only
\* jwt.ErrTokenExpired becomes ErrExpiredToken.
JWTVerifyToken(secretKey, token, t) ==
    IF token.variant # "jwt" \/ token.form # "ok"
        THEN [err |-> TokenErrInvalidToken, payload |-> NoPayload]
    ELSE IF token.alg \notin SigningMethods
        THEN [err |-> TokenErrInvalidToken, payload |-> NoPayload]
    ELSE IF token.alg \notin SigningMethodHMAC
        THEN [err |-> TokenErrInvalidToken, payload |-> NoPayload]
    ELSE IF token.key # secretKey
        THEN [err |-> TokenErrInvalidToken, payload |-> NoPayload]
    ELSE IF t >= token.claims.exp
        THEN [err |-> TokenErrExpiredToken, payload |-> NoPayload]
    ELSE [err |-> Nil, payload |-> <<token.claims>>]

\* fmt.Errorf("failed to decrypt token: %w", err) and
\* fmt.Errorf("invalid token id: %w", err)
ErrDecrypt == "failed to decrypt token"
ErrTokenID == "invalid token id"

\* uuid.String and uuid.Parse
UUIDString(id) == <<"uuid", id>>

UUIDParse(jti) ==
    IF Len(jti) = 2 /\ jti[1] = "uuid" THEN [err |-> Nil, id |-> jti[2]]
    ELSE [err |-> ErrTokenID, id |-> 0]

\* The JSONToken of a payload with its Jti left empty.
JSONTokenNoJti(payload) ==
    [Jti |-> <<>>, Subject |-> payload.sub,
     Expiration |-> payload.exp, IssuedAt |-> payload.iat,
     NotBefore |-> payload.iat]

\* The paseto.JSONToken of a payload.
JSONToken(payload) ==
    [Jti |-> UUIDString(payload.id), Subject |-> payload.sub,
     Expiration |-> payload.exp, IssuedAt |-> payload.iat,
     NotBefore |-> payload.iat]

\* PasetoMaker.CreateToken
PasetoCreateToken(secretKey, username, duration, t, id) ==
    Token("paseto", "v2.local", secretKey,
          JSONToken(NewPayload(username, duration, t, id)))

\* Payload.Valid: ErrExpiredToken once the time is past ExpiredAt.
PayloadValid(payload, t) ==
    IF t > payload.exp THEN TokenErrExpiredToken ELSE Nil

\* PasetoMaker.VerifyToken: v2.Decrypt, the payload of the claims, uuid.Parse
\* of a Jti that is not empty, payload.Valid.
PasetoVerifyToken(secretKey, token, t) ==
    IF token.variant # "paseto" \/ token.form # "ok" \/ token.key # secretKey
        THEN [err |-> ErrDecrypt, payload |-> NoPayload]
    ELSE
        LET jti == token.claims.Jti
            parsed == IF jti = <<>> THEN [err |-> Nil, id |-> 0] ELSE UUIDParse(jti)
            payload == [id |-> parsed.id, sub |-> token.claims.Subject,
                        iat |-> token.claims.IssuedAt,
                        exp |-> token.claims.Expiration]
        IN  IF parsed.err # Nil THEN [err |-> parsed.err, payload |-> NoPayload]
            ELSE IF PayloadValid(payload, t) # Nil
                THEN [err |-> PayloadValid(payload, t), payload |-> NoPayload]
            ELSE [err |-> Nil, payload |-> <<payload>>]

\* The two implementations of TokenMaker.
Variants == {"jwt", "paseto"}

CreateToken(variant, secretKey, username, duration, t, id) ==
    IF variant = "jwt" THEN JWTCreateToken(secretKey, username, duration, t, id)
    ELSE PasetoCreateToken(secretKey, username, duration, t, id)

VerifyTokenOf(variant, secretKey, token, t) ==
    IF variant = "jwt" THEN JWTVerifyToken(secretKey, token, t)
    ELSE PasetoVerifyToken(secretKey, token, t)

\* Secret keys of 32 bytes.
SecretKeys == {"key-1", "key-2"}

\* The longest duration asked for, in seconds.
MaxDuration == MaxNow

\* The algorithms a presented string may declare: the registered ones and a
\* name no method is registered under.
DeclaredAlgs == SigningMethods \cup {"NOT_HS256"}

\* The strings presented to the verifier of `variant` that holds `key`,
\* made from a token `minted` by a maker of that variant: the token itself;
\* the token with a byte of its signature or tag changed; a string that
\* does not parse; and, for the signed claims, the same claims under every
\* declared algorithm, with a signature that verifies under the verifier's
\* key, under the other key, or under none.
PresentedTo(variant, minted) ==
    {minted,
     [minted EXCEPT !.key = "none"],
     [minted EXCEPT !.form = "malformed"]}
    \cup (IF variant = "jwt"
           THEN {[minted EXCEPT !.alg = a, !.key = k] :
                    a \in DeclaredAlgs, k \in SecretKeys \cup {"none"}}
           ELSE {})

\* ------------------------------------------------- functions of packages
\* CreateToken at time t0, then VerifyToken of a string made from the token
\* at a later time, by a maker with the same or with another key.
VerifyTokenCall ==
    /\ call.fn = "None"
    /\ \E variant \in Variants, secretKey \in SecretKeys, verifyKey \in SecretKeys,
          username \in Names, duration \in 1..MaxDuration, t0 \in 0..1 :
           LET minted == CreateToken(variant, secretKey, username, duration, t0, 1)
           IN  \E token \in PresentedTo(variant, minted), t \in t0..MaxNow + 1 :
                   /\ call' = [fn |-> "VerifyToken", variant |-> variant,
                               secretKey |-> secretKey, verifyKey |-> verifyKey,
                               username |-> username, duration |-> duration,
                               mintedAt |-> t0, minted |-> minted,
                               token |-> token, now |-> t,
                               res |-> VerifyTokenOf(variant, verifyKey, token, t)]
                   /\ UNCHANGED <<users, refresh_tokens, bearers, now, inflight,
                                  returned, consumed, revokedAll, server, rateLimiter>>

\* MapError and MapErrorWithContext applied to the same error.
MapErrorCall ==
    /\ call.fn = "None"
    /\ \E err \in MappedErrors, operation \in Operations :
           /\ call' = [fn |-> "MapError", err |-> err, operation |-> operation,
                       plain |-> MapError(err),
                       withContext |-> MapErrorWithContextStatus(err, operation)]
           /\ UNCHANGED <<users, refresh_tokens, bearers, now, inflight,
                          returned, consumed, revokedAll, server, rateLimiter>>

\* RefreshToken.IsValid applied to a record with any fields at any time.
IsValidCall ==
    /\ call.fn = "None"
    /\ \E id \in {0, 1}, userID \in {0, 1}, tokenHash \in {<<>>, HashToken(1)},
          expiresAt \in 0..MaxNow + 1, revoked \in BOOLEAN, t \in 1..MaxNow :
           LET rt == [NewRefreshToken(id, userID, tokenHash, expiresAt)
                           EXCEPT !.is_revoked = revoked]
           IN  /\ call' = [fn |-> "RefreshToken.IsValid", rt |-> rt, now |-> t,
                           err |-> IsValid(rt, t)]
               /\ UNCHANGED <<users, refresh_tokens, bearers, now, inflight,
                              returned, consumed, revokedAll, server, rateLimiter>>

\* The values a field of a user can have, as far as its checks tell them
\* apart: the empty string, a string its Validate refuses, one it accepts.
FieldValues == {"empty", "malformed", "valid"}

\* Email.Validate, Username.Validate, Password.Validate: the error of the
\* type for every value but a valid one, the empty string included.
EmailValidate(email) == IF email = "valid" THEN Nil ELSE ErrInvalidEmail

UsernameValidate(username) ==
    IF username = "valid" THEN Nil ELSE ErrInvalidUsername

PasswordValidate(password) ==
    IF password = "valid" THEN Nil ELSE ErrInvalidPassword

\* PasswordHash.Validate: only the empty hash is refused.
PasswordHashValidate(hash) == IF hash = "empty" THEN ErrInvalidPassword ELSE Nil

\* The User built: the fields given, a fresh ID.
UserOf(email, passwordHash, username) ==
    <<[id |-> 1, email |-> email, username |-> username,
       password_hash |-> passwordHash]>>

\* NewUser with NewEmail tried before the check of the empty email.
NewUserEmailFirst(email, passwordHash, username) ==
    IF EmailValidate(email) # Nil THEN [err |-> EmailValidate(email), user |-> <<>>]
    ELSE IF email = "empty" THEN [err |-> ErrEmailIsRequired, user |-> <<>>]
    ELSE IF UsernameValidate(username) # Nil
        THEN [err |-> UsernameValidate(username), user |-> <<>>]
    ELSE IF PasswordHashValidate(passwordHash) # Nil
        THEN [err |-> PasswordHashValidate(passwordHash), user |-> <<>>]
    ELSE [err |-> Nil, user |-> UserOf(email, passwordHash, username)]

\* NewUser with all its checks: the error, and the user (<<>> for nil).
NewUserChecked(email, passwordHash, username) ==
    IF email = "empty" THEN [err |-> ErrEmailIsRequired, user |-> <<>>]
    ELSE IF EmailValidate(email) # Nil
        THEN [err |-> EmailValidate(email), user |-> <<>>]
    ELSE IF UsernameValidate(username) # Nil
        THEN [err |-> UsernameValidate(username), user |-> <<>>]
    ELSE IF PasswordHashValidate(passwordHash) # Nil
        THEN [err |-> PasswordHashValidate(passwordHash), user |-> <<>>]
    ELSE [err |-> Nil, user |-> UserOf(email, passwordHash, username)]

\* NewUserWithPassword: the password is checked before the username, and
\* the user is built with an empty PasswordHash.
NewUserWithPassword(email, password, username) ==
    IF email = "empty" THEN [err |-> ErrEmailIsRequired, user |-> <<>>]
    ELSE IF EmailValidate(email) # Nil
        THEN [err |-> EmailValidate(email), user |-> <<>>]
    ELSE IF PasswordValidate(password) # Nil
        THEN [err |-> PasswordValidate(password), user |-> <<>>]
    ELSE IF UsernameValidate(username) # Nil
        THEN [err |-> UsernameValidate(username), user |-> <<>>]
    ELSE [err |-> Nil, user |-> UserOf(email, "empty", username)]

\* User.IsValid
UserIsValid(u) ==
    IF u.email = "empty" THEN ErrEmailIsRequired
    ELSE IF EmailValidate(u.email) # Nil THEN EmailValidate(u.email)
    ELSE IF UsernameValidate(u.username) # Nil THEN UsernameValidate(u.username)
    ELSE IF PasswordHashValidate(u.password_hash) # Nil
        THEN PasswordHashValidate(u.password_hash)
    ELSE Nil

NewUserCall ==
    /\ call.fn = "None"
    /\ \E email \in FieldValues, passwordHash \in FieldValues,
          username \in FieldValues :
           LET res == NewUserChecked(email, passwordHash, username)
           IN  /\ call' = [fn |-> "NewUser", email |-> email,
                           password |-> passwordHash, username |-> username,
                           err |-> res.err, user |-> res.user]
               /\ UNCHANGED <<users, refresh_tokens, bearers, now, inflight,
                              returned, consumed, revokedAll, server, rateLimiter>>

NewUserWithPasswordCall ==
    /\ call.fn = "None"
    /\ \E email \in FieldValues, password \in FieldValues,
          username \in FieldValues :
           LET res == NewUserWithPassword(email, password, username)
           IN  /\ call' = [fn |-> "NewUserWithPassword", email |-> email,
                           password |-> password, username |-> username,
                           err |-> res.err, user |-> res.user]
               /\ UNCHANGED <<users, refresh_tokens, bearers, now, inflight,
                              returned, consumed, revokedAll, server, rateLimiter>>

UserIsValidCall ==
    /\ call.fn = "None"
    /\ \E email \in FieldValues, passwordHash \in FieldValues,
          username \in FieldValues :
           /\ call' = [fn |-> "User.IsValid", email |-> email,
                       password |-> passwordHash, username |-> username,
                       err |-> UserIsValid(UserOf(email, passwordHash, username)[1]),
                       user |-> <<>>]
           /\ UNCHANGED <<users, refresh_tokens, bearers, now, inflight,
                          returned, consumed, revokedAll, server, rateLimiter>>

\* The function has returned; the next call is independent of it.
Return ==
    /\ call.fn # "None"
    /\ call' = NoCall
    /\ UNCHANGED <<users, refresh_tokens, bearers, now, inflight, returned,
                   consumed, revokedAll, server, rateLimiter>>

\* The store call whose error each of the four operations returns unchanged:
\* RevokeByID for RevokeToken and for the revoke step of RefreshToken,
\* RevokeByUserID, DeleteExpired.
StoreCall(operation) ==
    IF operation \in {"RevokeToken", "RefreshToken"} THEN "RevokeByID"
    ELSE IF operation = "RevokeAllUserTokens" THEN "RevokeByUserID"
    ELSE "DeleteExpired"

\* fmt.Errorf("failed to ...: %w", err) of the store call: a new error with
\* the text of both, which is not the error it wraps.
Errorf(storeCall, err) ==
    IF storeCall = "RevokeByID" THEN
        IF err = ContextCanceled
        THEN "failed to revoke refresh token by ID: context canceled"
        ELSE "failed to revoke refresh token by ID: context deadline exceeded"
    ELSE IF storeCall = "RevokeByUserID" THEN
        IF err = ContextCanceled
        THEN "failed to revoke refresh tokens by user ID: context canceled"
        ELSE "failed to revoke refresh tokens by user ID: context deadline exceeded"
    ELSE
        IF err = ContextCanceled
        THEN "failed to delete expired refresh tokens: context canceled"
        ELSE "failed to delete expired refresh tokens: context deadline exceeded"

\* ExecContext of a store call is aborted because the context of the request
\* was cancelled or its deadline passed; the repository wraps the cause, the
\* service returns the error as it is, and the handler hands it to
\* MapErrorWithContext with the name of the operation.
StoreAbortCall ==
    /\ call.fn = "None"
    /\ \E operation \in Operations \ {"Register", "Login"},
          cause \in {ContextCanceled, ContextDeadlineExceeded} :
           LET err == Errorf(StoreCall(operation), cause) IN
           /\ call' = [fn |-> "StoreAbort", operation |-> operation,
                       cause |-> cause, err |-> err,
                       status |-> MapErrorWithContextStatus(err, operation)]
           /\ UNCHANGED <<users, refresh_tokens, bearers, now, inflight,
                          returned, consumed, revokedAll, server, rateLimiter>>

NextCalls ==
    \/ MapErrorCall
    \/ StoreAbortCall
    \/ VerifyTokenCall
    \/ IsValidCall
    \/ NewUserCall
    \/ NewUserWithPasswordCall
    \/ UserIsValidCall
    \/ Return

SpecCalls == Init /\ [][NextCalls]_vars

\* ----------------------------------- RefreshToken, one clock reading a step
\* main hands the service a JWTTokenMaker with the key of the configuration.
SecretKey == "key-1"

\* cfg.Security.JWT.TokenDuration, in seconds.
TokenDuration == 1

\* The access tokens are numbered from -2 down: the one numbered
\* AccessToken(b, t) was minted at second t for the owner of bearer b.
AccessToken(b, t) == 0 - (2 + (b - 1) * (MaxNow + 1) + t)

AccessOwner(a) == ((0 - a - 2) \div (MaxNow + 1)) + 1

AccessIssuedAt(a) == (0 - a - 2) % (MaxNow + 1)

\* The access tokens minted so far: one with every bearer, by Register or
\* Login, and one by every RefreshToken call that reached CreateToken, at a
\* second between the issue of the bearer it presented and now.
AccessTokens ==
    {AccessToken(b, bearers[b].iat) : b \in 1..Len(bearers)}
    \cup UNION {{AccessToken(b, t) : t \in bearers[b].iat..now} :
                    b \in consumed}

\* What a caller may present to RefreshToken: the strings of Presented and
\* the access tokens.
PresentedStrings == Presented \cup AccessTokens

\* The string of bearer b, or of an access token, as the JWT maker signed
\* it, each payload with an ID of its own; a string the maker did not
\* produce does not parse.
BearerString(b) ==
    IF b \in 1..Len(bearers)
    THEN Token("jwt", "HS256", SecretKey, bearers[b])
    ELSE IF b <= 0 - 2
    THEN Token("jwt", "HS256", SecretKey,
               NewPayload(bearers[AccessOwner(b)].sub, TokenDuration,
                          AccessIssuedAt(b), b))
    ELSE [Token("jwt", "HS256", SecretKey, NewPayload(0, 0, 0, 0))
            EXCEPT !.form = "malformed"]

\* VerifyRefreshToken of a maker that accepts a token at the second of its
\* exp.
VerifyRefreshTokenAtExp(b, t) ==
    IF b \in 1..Len(bearers) /\ t <= bearers[b].exp
    THEN Nil ELSE TokenErrExpiredToken

\* JWTTokenMaker.VerifyRefreshToken: the error of VerifyToken.
JWTVerifyRefreshToken(b, t) == JWTVerifyToken(SecretKey, BearerString(b), t).err

\* The empty check and tokenMaker.VerifyRefreshToken, which reads the clock
\* inside jwt.ParseWithClaims; every error of it becomes ErrInvalidToken.
RefreshTokenVerify ==
    /\ CanStart
    /\ \E b \in PresentedStrings :
        LET start == [Request("RefreshToken", "ref_record")
                        EXCEPT !.tok = b, !.late = b \in consumed,
                               !.cut = b \in revokedAll]
        IN
        IF b = 0 \/ JWTVerifyRefreshToken(b, now) # Nil THEN
            /\ returned' = RespOf(start, ErrInvalidToken)
            /\ UNCHANGED inflight
        ELSE
            /\ inflight' = Started(start)
            /\ UNCHANGED returned
    /\ UNCHANGED <<users, refresh_tokens, bearers, now, consumed, revokedAll, call, server, rateLimiter>>

\* HashToken, GetByTokenHash, refreshTokenRecord.IsValid(), which reads the
\* clock again after the query, userRepo.GetByID and CreateToken.
RefreshTokenRecord(pr) ==
    /\ Delivered
    /\ pr.pc = "ref_record"
    /\ \E fault \in {"none", "lookup", "user", "maker"} :
        LET id == IF fault = "lookup" THEN 0
                  ELSE GetByTokenHash(HashToken(pr.tok))
            valid == IsValid(Row(id), now)
            uid == IF fault = "user" THEN 0 ELSE GetByID(Row(id).user_id)
            err == IF id = 0 THEN ErrInvalidToken
                   ELSE IF valid # Nil THEN valid
                   ELSE IF uid = 0 THEN ErrUserNotFound
                   ELSE IF fault = "maker" THEN ErrTokenMaker
                   ELSE Nil
        IN
        IF err # Nil THEN
            /\ returned' = RespOf([pr EXCEPT !.rec = id], err)
            /\ inflight' = Ended(pr)
        ELSE
            /\ inflight' = Started([pr EXCEPT !.pc = "ref_revoke", !.rec = id])
                                (-) SetToBag({pr})
            /\ UNCHANGED returned
    /\ UNCHANGED <<users, refresh_tokens, bearers, now, consumed, revokedAll, call, server, rateLimiter>>

NextRefresh ==
    \/ Register
    \/ \E pr \in InFlight : RegisterTokens(pr)
    \/ Login
    \/ \E pr \in InFlight : LoginTokens(pr)
    \/ RefreshTokenVerify
    \/ \E pr \in InFlight : RefreshTokenRecord(pr)
    \/ \E pr \in InFlight : RefreshRevoke(pr)
    \/ Tick
    \/ Deliver

SpecRefresh == Init /\ [][NextRefresh]_vars

\* --------------------------------------------------- RateLimitInterceptor
\* now := time.Now(), the reset of the counters when the window has passed,
\* and the check of the counter of the method: the call is refused with
\* ResourceExhausted, or goes on to the increment.
RateLimitCheck(g, method) ==
    LET reset == now - rateLimiter.lastReset > window
        counts == IF reset THEN NoCounts ELSE rateLimiter.requestCounts
        refused == counts[method] >= maxRequests
    IN
    /\ ~rateLimiter.fatal
    /\ rateLimiter.calls[g].pc = "outside"
    /\ rateLimiter' =
            [rateLimiter EXCEPT
                !.requestCounts = counts,
                !.lastReset = IF reset THEN now ELSE @,
                !.admitted = IF reset THEN NoCounts ELSE @,
                !.rejected = refused,
                !.calls[g] = IF refused THEN Outside
                             ELSE [pc |-> "checked", method |-> method,
                                   count |-> 0]]
    /\ UNCHANGED <<users, refresh_tokens, bearers, now, inflight, returned,
                   consumed, revokedAll, call, server>>

\* requestCounts[info.FullMethod]++ reads the counter ...
RateLimitRead(g) ==
    /\ ~rateLimiter.fatal
    /\ rateLimiter.calls[g].pc = "checked"
    /\ rateLimiter' =
            [rateLimiter EXCEPT
                !.rejected = FALSE,
                !.calls[g].pc = "read",
                !.calls[g].count =
                    rateLimiter.requestCounts[rateLimiter.calls[g].method]]
    /\ UNCHANGED <<users, refresh_tokens, bearers, now, inflight, returned,
                   consumed, revokedAll, call, server>>

\* ... and writes it back, one higher; then the handler is called.  The map
\* is shared by the goroutines without a lock: when another goroutine is in
\* the middle of its own increment the runtime may also stop the process
\* with "concurrent map writes".
RateLimitWrite(g) ==
    LET method == rateLimiter.calls[g].method IN
    /\ ~rateLimiter.fatal
    /\ rateLimiter.calls[g].pc = "read"
    /\ \/ rateLimiter' =
            [rateLimiter EXCEPT
                !.requestCounts[method] = rateLimiter.calls[g].count + 1,
                !.admitted[method] = IF @ > maxRequests THEN @ ELSE @ + 1,
                !.rejected = FALSE,
                !.calls[g] = Outside]
       \/ /\ \E h \in Goroutines \ {g} : rateLimiter.calls[h].pc = "read"
          /\ rateLimiter' = [rateLimiter EXCEPT !.fatal = TRUE]
    /\ UNCHANGED <<users, refresh_tokens, bearers, now, inflight, returned,
                   consumed, revokedAll, call, server>>

NextRateLimit ==
    \/ \E g \in Goroutines, method \in FullMethods : RateLimitCheck(g, method)
    \/ \E g \in Goroutines : RateLimitRead(g)
    \/ \E g \in Goroutines : RateLimitWrite(g)
    \/ Tick

SpecRateLimit == Init /\ [][NextRateLimit]_vars

\* ------------------------------------------------- Credential Validator
\* Strings are sequences of characters, written as runs: <<c, n>> is the
\* character c repeated n times.
Repeat(c, n) == [i \in 1..n |-> c]

RECURSIVE Text(_)
Text(runs) ==
    IF runs = <<>> THEN <<>>
    ELSE Repeat(runs[1][1], runs[1][2]) \o Text(Tail(runs))

\* The longest string tried, in runs.
MaxRuns == 4

\* All strings of at most n of the given runs.
Strings(runs, n) == UNION {[1..k -> runs] : k \in 0..n}

\* The number of elements of a sequence that satisfy Test.
Count(s, Test(_)) == Cardinality({i \in 1..Len(s) : Test(s[i])})

\* One character of each class of a password.
IsUpper(c) == c = "A"
IsLower(c) == c = "a"
IsDigit(c) == c = "1"
IsSpecial(c) == c = "!"

MinPasswordLength == 8
MaxPasswordLength == 128

\* How many of the four classes have a character in s.
Classes(s) ==
    Cardinality({k \in 1..4 :
        \E i \in 1..Len(s) :
            \/ k = 1 /\ IsUpper(s[i])
            \/ k = 2 /\ IsLower(s[i])
            \/ k = 3 /\ IsDigit(s[i])
            \/ k = 4 /\ IsSpecial(s[i])})

\* Password.Validate asking for two classes only.
ValidatePasswordTwoClasses(s) ==
    IF Len(s) < MinPasswordLength \/ Len(s) > MaxPasswordLength
        THEN ErrInvalidPassword
    ELSE IF Classes(s) < 2 THEN ErrInvalidPassword
    ELSE Nil

\* Password.Validate
ValidatePassword(s) ==
    IF Len(s) < MinPasswordLength \/ Len(s) > MaxPasswordLength
        THEN ErrInvalidPassword
    ELSE IF Classes(s) < 3 THEN ErrInvalidPassword
    ELSE Nil

\* The runs passwords are made of: each class once and three times, and a
\* long run of lowercase letters.
PasswordRuns ==
    {<<c, n>> : c \in {"A", "a", "1", "!"}, n \in {1, 3}} \cup {<<"a", 124>>}

PasswordValidateCall ==
    /\ call.fn = "None"
    /\ \E runs \in Strings(PasswordRuns, MaxRuns) :
        /\ call' = [fn |-> "Password.Validate", s |-> Text(runs),
                    err |-> ValidatePassword(Text(runs))]
        /\ UNCHANGED <<users, refresh_tokens, bearers, now, inflight,
                       returned, consumed, revokedAll, server, rateLimiter>>

\* One character of each kind a username tells apart ("!" stands for every
\* character that is not allowed).
IsLetter(c) == c = "a"
IsSeparator(c) == c \in {"_", "-"}

MinUsernameLength == 3
MaxUsernameLength == 30

\* Username.Validate without the test of the last character.
ValidateUsernameOpenEnd(s) ==
    IF Len(s) < MinUsernameLength \/ Len(s) > MaxUsernameLength
        THEN ErrInvalidUsername
    ELSE IF \E i \in 1..Len(s) :
                ~(IsLetter(s[i]) \/ IsDigit(s[i]) \/ IsSeparator(s[i]))
        THEN ErrInvalidUsername
    ELSE IF IsSeparator(s[1]) THEN ErrInvalidUsername
    ELSE IF \E i \in 1..Len(s) - 1 : IsSeparator(s[i]) /\ s[i + 1] = s[i]
        THEN ErrInvalidUsername
    ELSE Nil

\* Username.Validate
ValidateUsername(s) ==
    IF Len(s) < MinUsernameLength \/ Len(s) > MaxUsernameLength
        THEN ErrInvalidUsername
    ELSE IF \E i \in 1..Len(s) :
                ~(IsLetter(s[i]) \/ IsDigit(s[i]) \/ IsSeparator(s[i]))
        THEN ErrInvalidUsername
    ELSE IF IsSeparator(s[1]) \/ IsSeparator(s[Len(s)]) THEN ErrInvalidUsername
    ELSE IF \E i \in 1..Len(s) - 1 : IsSeparator(s[i]) /\ s[i + 1] = s[i]
        THEN ErrInvalidUsername
    ELSE Nil

\* The runs usernames are made of: each character once and twice, and a
\* long run of letters.
UsernameRuns ==
    {<<c, n>> : c \in {"a", "1", "_", "-", "!"}, n \in {1, 2}}
    \cup {<<"a", 27>>}

UsernameValidateCall ==
    /\ call.fn = "None"
    /\ \E runs \in Strings(UsernameRuns, MaxRuns) :
        /\ call' = [fn |-> "Username.Validate", s |-> Text(runs),
                    err |-> ValidateUsername(Text(runs))]
        /\ UNCHANGED <<users, refresh_tokens, bearers, now, inflight,
                       returned, consumed, revokedAll, server, rateLimiter>>

MinEmailLength == 5
MaxEmailLength == 254
MinDomainLength == 2
MaxDomainLength == 253

\* The positions of '@' in email, counted from 0 as the loop does.
AtIndexes(email) == {i \in 0..Len(email) - 1 : email[i + 1] = "@"}

\* The last '@' (atIndex after the loop, -1 when there is none).
AtIndex(email) ==
    IF AtIndexes(email) = {} THEN -1
    ELSE CHOOSE i \in AtIndexes(email) : \A j \in AtIndexes(email) : j <= i

\* email[atIndex+1:]
Domain(email, atIndex) == SubSeq(email, atIndex + 2, Len(email))

\* isValidEmail without the return on a second '@'.
isValidEmailManyAts(email) ==
    IF Len(email) < MinEmailLength \/ Len(email) > MaxEmailLength THEN FALSE
    ELSE IF AtIndex(email) = -1 \/ AtIndex(email) = 0
            \/ AtIndex(email) = Len(email) - 1 THEN FALSE
    ELSE IF Len(Domain(email, AtIndex(email))) < MinDomainLength
            \/ Len(Domain(email, AtIndex(email))) > MaxDomainLength THEN FALSE
    ELSE \E i \in 1..Len(Domain(email, AtIndex(email))) :
            Domain(email, AtIndex(email))[i] = "."

\* isValidEmail: the length, the loop over the characters that returns at a
\* second '@', the place of the '@', the length of the domain, the dot.
isValidEmail(email) ==
    IF Len(email) < MinEmailLength \/ Len(email) > MaxEmailLength THEN FALSE
    ELSE IF Cardinality(AtIndexes(email)) > 1 THEN FALSE
    ELSE IF AtIndex(email) = -1 \/ AtIndex(email) = 0
            \/ AtIndex(email) = Len(email) - 1 THEN FALSE
    ELSE IF Len(Domain(email, AtIndex(email))) < MinDomainLength
            \/ Len(Domain(email, AtIndex(email))) > MaxDomainLength THEN FALSE
    ELSE \E i \in 1..Len(Domain(email, AtIndex(email))) :
            Domain(email, AtIndex(email))[i] = "."

\* Email.Validate
ValidateEmail(s) == IF isValidEmail(s) THEN Nil ELSE ErrInvalidEmail

\* The runs emails are made of: a letter, '@', '.', and a long run of
\* letters.
EmailRuns == {<<"a", 1>>, <<"@", 1>>, <<".", 1>>, <<"a", 250>>}

\* An email needs more runs than the other fields to get to its limits.
MaxEmailRuns == MaxRuns + 2

EmailValidateCall ==
    /\ call.fn = "None"
    /\ \E runs \in Strings(EmailRuns, MaxEmailRuns) :
        /\ call' = [fn |-> "Email.Validate", s |-> Text(runs),
                    err |-> ValidateEmail(Text(runs))]
        /\ UNCHANGED <<users, refresh_tokens, bearers, now, inflight,
                       returned, consumed, revokedAll, server, rateLimiter>>

NextValidator ==
    \/ PasswordValidateCall
    \/ UsernameValidateCall
    \/ EmailValidateCall
    \/ Return

SpecValidator == Init /\ [][NextValidator]_vars

\* ------------------------------------------------------------------ claims
\* C1: of the RefreshToken calls that present one valid refresh token
\* concurrently, at most one succeeds: a call that started before the token
\* was consumed never succeeds after another call succeeded with it.
C1_OneConcurrentRefreshWins ==
    [][\A pr \in InFlight :
        (RefreshRevoke(pr) /\ ~pr.late /\ returned'.res = Nil)
            => pr.tok \notin consumed]_vars

\* C2: once Register has returned an error after inserting the Identity, the
\* store holds neither that Identity nor a Session of it.
C2_NoIdentityAfterFailedRegister ==
    (returned.op = "Register" /\ returned.uid # 0
        /\ returned.res \notin {Nil, Panic})
    => (/\ GetByID(returned.uid) = 0
        /\ \A r \in refresh_tokens : r.user_id # returned.uid)

\* C3: CleanupExpiredTokens removes no session whose expires-at is still in
\* the future.
C3_CleanupKeepsUnexpired ==
    [][CleanupExpiredTokens =>
        \A r \in refresh_tokens : r.expires_at > now => r \in refresh_tokens']_vars

\* C4: RevokeByID on a session that is already revoked changes no row and
\* does not report success.
C4_SecondRevokeIsNotFound ==
    [][\A pr \in InFlight :
        ((RevokeRevoke(pr) \/ RefreshRevoke(pr))
            /\ \E r \in refresh_tokens : r.id = pr.rec /\ r.is_revoked)
        => (returned'.res # Nil /\ refresh_tokens' = refresh_tokens)]_vars

\* C5: a session that is revoked stays revoked for as long as it is stored
\* and fails the validity check, and no RefreshToken call gets past the
\* validity check with a session that is revoked.
C5_RevokedIsTerminal ==
    [][/\ \A r \in refresh_tokens : r.is_revoked =>
            \A t \in refresh_tokens' : t.id = r.id =>
                (t.is_revoked /\ IsValid(t, now') # Nil)
       /\ \A pr \in BagToSet(inflight') :
            (pr.pc = "ref_revoke" /\ CopiesIn(pr, inflight') > CopiesIn(pr, inflight))
            => \E r \in refresh_tokens : r.id = pr.rec /\ ~r.is_revoked]_vars

C5_Witness ==
    /\ returned.op = "RefreshToken"
    /\ returned.res = ErrTokenRevoked
    /\ \E r \in refresh_tokens : r.id = returned.rec /\ r.is_revoked

\* C6: a RefreshToken call that starts after a RefreshToken call succeeded
\* with the same bearer gets an Unauthenticated status and no response.
C6_ConsumedBearerIsRefused ==
    (returned.op = "RefreshToken" /\ returned.late)
    => (/\ UnaryServerInterceptor(returned.res).code = "Unauthenticated"
        /\ ~UnaryServerInterceptor(returned.res).hasResp)

C6_Witness ==
    /\ returned.op = "RefreshToken"
    /\ returned.late
    /\ returned.tok \in consumed
    /\ UnaryServerInterceptor(returned.res).code = "Unauthenticated"

\* C7 as claimed: a RefreshToken call with a bearer that an earlier
\* successful RefreshToken consumed fails with InvalidToken.
C7_SecondRefreshIsInvalidToken ==
    (returned.op = "RefreshToken" /\ returned.late)
    => returned.res = ErrInvalidToken

\* C7 as amended: it fails with RevokedToken when its lookup finds the
\* consumed session, and with InvalidToken when verification or the lookup
\* fails.
C7_SecondRefreshIsRevokedToken ==
    (returned.op = "RefreshToken" /\ returned.late)
    => returned.res =
        (IF returned.rec # 0 THEN ErrTokenRevoked ELSE ErrInvalidToken)

C7_Witness ==
    /\ returned.op = "RefreshToken"
    /\ returned.late
    /\ returned.rec # 0
    /\ returned.res = ErrTokenRevoked

\* C8: a successful RefreshToken returns a replacement refresh token whose
\* Session row is stored.
C8_RefreshReturnsNewRefreshToken ==
    (returned.op = "RefreshToken" /\ returned.res = Nil)
    => (/\ returned.out # 0
        /\ \E r \in refresh_tokens : r.token_hash = HashToken(returned.out))

\* C9: the caller of a request whose handler panicked receives status
\* Internal, never a nil response with a nil error.
C9_PanicIsInternal ==
    returned.res = Panic
    => UnaryServerInterceptor(returned.res).code = "Internal"

\* C10: no RefreshToken or RevokeToken call returns the token-not-found kind.
C10_NeverTokenNotFound ==
    returned.op \in {"RefreshToken", "RevokeToken"}
    => returned.res # ErrTokenNotFound

C12_RevokeAllOutcomes ==
    returned.op = "RevokeAllUserTokens"
    => (/\ UnaryServerInterceptor(returned.res).code
                \in {"OK", "InvalidArgument", "Internal"}
        /\ returned.res # ErrStore => returned.res = Nil)

\* C13: a RefreshToken call that presented a refresh token returned by
\* Register or Login, before its expiry and any revocation, and found the
\* stored session valid, returns an access token unless the store fails.
C13_ValidTokenRefreshes ==
    [][\A pr \in InFlight :
        (RefreshRevoke(pr) /\ returned'.res # ErrStore)
            => returned'.res = Nil]_vars

\* C14: a successful Register creates one Identity, with the email and the
\* username of the request and a password hash that is neither empty nor the
\* plaintext, and one Session of that Identity, unrevoked, expiring in the
\* future, whose token_hash is the digest of the refresh token returned.
C14_RegisterCreatesIdentityAndSession ==
    [][/\ (users' # users /\ RegisterAny) =>
            \E u \in users' \ users :
                /\ users' = users \cup {u}
                /\ \A pr \in BagToSet(inflight') :
                    CopiesIn(pr, inflight') > CopiesIn(pr, inflight) =>
                        /\ u.id = pr.uid
                        /\ u.email = pr.req.email
                        /\ u.username = pr.req.username
                        /\ u.password_hash # <<>>
                        /\ u.password_hash # pr.req.password
       /\ (returned'.op = "Register" /\ returned'.res = Nil) =>
           \A pr \in InFlight :
            RegisterTokens(pr) =>
                /\ users' = users
                /\ \E u \in users :
                    /\ u.id = pr.uid
                    /\ u.email = pr.req.email
                    /\ u.username = pr.req.username
                /\ returned'.out # 0
                /\ \E r \in refresh_tokens' \ refresh_tokens :
                    /\ refresh_tokens' = refresh_tokens \cup {r}
                    /\ r.user_id = pr.uid
                    /\ ~r.is_revoked
                    /\ r.expires_at > now
                    /\ r.token_hash = HashToken(returned'.out)]_vars

C14_Witness ==
    /\ returned.op = "Register"
    /\ returned.res = Nil
    /\ returned.out # 0
    /\ \E u \in users : u.id = returned.uid /\ u.email = returned.req.email
    /\ \E r \in refresh_tokens :
        r.user_id = returned.uid /\ r.token_hash = HashToken(returned.out)

\* C15: a Register whose email, username or password violates a rule returns
\* the kind of the first rule violated (email required, email, username,
\* password) and changes neither table, mints nothing and starts nothing.
C15_InvalidRegisterTouchesNothing ==
    [][(/\ returned'.op = "Register"
        /\ returned'.req.shape \notin {<<>>, ValidShape}
        /\ CanStart
        /\ RegisterReq(returned'.req, "ok"))
       => (/\ returned'.res =
                IF returned'.req.shape[1] = "empty" THEN ErrEmailIsRequired
                ELSE IF returned'.req.shape[1] = "malformed" THEN ErrInvalidEmail
                ELSE IF ~returned'.req.shape[2] THEN ErrInvalidUsername
                ELSE ErrInvalidPassword
           /\ UNCHANGED <<users, refresh_tokens, bearers, inflight>>)]_vars

C15_Witness ==
    /\ returned.op = "Register"
    /\ returned.req.shape = <<"malformed", FALSE, FALSE>>
    /\ returned.res = ErrInvalidEmail
    /\ users # {}

\* C16: a well-formed Login that fails at the lookup of the email or at the
\* password returns the same result, InvalidCredentials with no tokens and no
\* identity, and creates no Session.
C16_LoginFailuresAreUniform ==
    [][(/\ returned'.op = "Login"
        /\ inflight' = inflight
        /\ returned'.req.shape # <<>>
        /\ ValidateLogin(returned'.req.shape) = Nil
        /\ LoginAny)
        => (/\ [returned' EXCEPT !.req = NoRequest]
                    = Resp("Login", ErrInvalidCredentials)
            /\ UNCHANGED <<users, refresh_tokens, bearers, inflight>>)]_vars

C16_Witness ==
    /\ returned.op = "Login"
    /\ returned.res = ErrInvalidCredentials
    /\ GetByEmail(returned.req.email) # 0
    /\ returned.req.password # Password(returned.req.email)

\* C17 as stated: a Login whose session insert fails after both tokens were
\* minted returns a successful token pair.
C17_FailedWriteReturnsTokens ==
    [][(Len(bearers') > Len(bearers) /\ refresh_tokens' = refresh_tokens) =>
       \A pr \in InFlight :
        (/\ NewRefreshTokenErr(pr.uid, GenerateTokenHash(Len(bearers'))[2],
                               RefreshTokenDuration + now, now) = Nil
         /\ LoginTokens(pr))
        => (returned'.res = Nil /\ returned'.out = Len(bearers'))]_vars

\* C17: a Login whose session insert fails after both tokens were minted
\* returns the store's error and no token; the refresh token it minted has no
\* session row, and a RefreshToken call passes its lookup only with a token
\* that has one.
C17_FailedWriteReturnsError ==
    [][/\ (Len(bearers') > Len(bearers) /\ refresh_tokens' = refresh_tokens) =>
           \A pr \in InFlight :
            (/\ NewRefreshTokenErr(pr.uid, GenerateTokenHash(Len(bearers'))[2],
                                   RefreshTokenDuration + now, now) = Nil
             /\ LoginTokens(pr))
            => (/\ returned'.res = ErrStore
                /\ returned'.out = 0
                /\ \A r \in refresh_tokens' :
                        r.token_hash # HashToken(Len(bearers')))
       /\ (inflight' # inflight /\ returned' = returned) =>
            \A pr \in BagToSet(inflight') :
                (/\ pr.op = "RefreshToken"
                 /\ CopiesIn(pr, inflight') > CopiesIn(pr, inflight)) =>
                    \E r \in refresh_tokens : r.token_hash = HashToken(pr.tok)]_vars

C17_Witness ==
    /\ returned.op = "Login"
    /\ returned.res = ErrStore
    /\ returned.out = 0
    /\ \E b \in 1..Len(bearers) :
        \A r \in refresh_tokens : r.token_hash # HashToken(b)

\* C18: an operation entered with a context that is already canceled (or past
\* its deadline) returns Canceled (DeadlineExceeded) with the name of the
\* operation in the message, starts no call of the service and leaves the
\* store as it was.
C18_DoneContextIsRefusedAtEntry ==
    [][(returned'.status # <<>> /\ EnterDone) =>
        /\ returned'.op \in Operations
        /\ returned'.res = ContextCanceled => returned'.status[1] = "Canceled"
        /\ returned'.res = ContextDeadlineExceeded
                => returned'.status[1] = "DeadlineExceeded"
        /\ returned'.status[1] \in {"Canceled", "DeadlineExceeded"}
        /\ returned'.status[2] = returned'.op
        /\ UNCHANGED <<users, refresh_tokens, bearers, inflight>>]_vars

C18_Witness ==
    /\ returned.op = "RevokeAllUserTokens"
    /\ returned.res = ContextDeadlineExceeded
    /\ returned.status = <<"DeadlineExceeded", "RevokeAllUserTokens",
                           "operation deadline exceeded">>
    /\ refresh_tokens # {}

\* C19: the message of an Internal status is the same for every failure
\* outside the recognized kinds: no part of it is the text of the cause.
C19_InternalMessageIsGeneric ==
    (/\ returned.res \notin {"", Nil, Panic}
     /\ MapErrorWithContext(returned.res) = "Internal")
    => LET msg == InternalMessage(returned.res, returned.op)
       IN  \A i \in DOMAIN msg : msg[i] # returned.res

\* C20: a well-formed Register whose email or username a stored identity
\* already has, the store answering, fails with AlreadyExists and changes
\* neither table; and in every state no two identities share an email or a
\* username.
C20_DuplicateIsAlreadyExists ==
    [][/\ (/\ returned'.op = "Register"
           /\ inflight' = inflight
           /\ returned'.res # ErrStore
           /\ returned'.req.shape = ValidShape
           /\ \E u \in users : \/ u.email = returned'.req.email
                               \/ u.username = returned'.req.username
           /\ RegisterAny)
          => (/\ MapErrorWithContext(returned'.res) = "AlreadyExists"
              /\ UNCHANGED <<users, refresh_tokens>>)
       /\ (users' # users /\ RegisterAny) =>
            \A u \in users : \A pr \in BagToSet(inflight') :
                CopiesIn(pr, inflight') > CopiesIn(pr, inflight) =>
                    u.email # pr.req.email /\ u.username # pr.req.username
       /\ \A u, v \in users' :
            u # v => (u.email # v.email /\ u.username # v.username)]_vars

C20_Witness ==
    /\ returned.op = "Register"
    /\ returned.res = ErrDuplicateKey
    /\ \E u \in users : /\ u.username = returned.req.username
                        /\ u.email # returned.req.email
    /\ \A u \in users : u.email # returned.req.email
    /\ inflight # EmptyBag

\* C28 as stated: once the graceful-shutdown timeout has passed, the server is
\* not left waiting for a request still in flight.
C28_TimeoutForcesStop ==
    server.elapsed > GracefulShutdownTimeout
    => ~(server.phase = "stopping" /\ inflight # EmptyBag)

\* C29: the database connection is closed only after the server has stopped
\* accepting requests and every request in flight has completed, so no
\* handler runs once it is closed.
C29_DatabaseClosedAfterRequests ==
    server.db = "closed" => (~Accepting /\ inflight = EmptyBag)

C29_Witness ==
    /\ server.db = "closed"
    /\ server.phase = "completed"
    /\ refresh_tokens # {}
    /\ server.elapsed > GracefulShutdownTimeout

\* C27: RefreshToken.IsValid reports InvalidToken when the id, the owner or
\* the token hash is empty; otherwise RevokedToken when the record is
\* revoked; otherwise ExpiredToken when it has expired; otherwise nothing.
C27_IsValidPrecedence ==
    call.fn = "RefreshToken.IsValid" =>
        LET rt == call.rt
            empty == rt.id = 0 \/ rt.user_id = 0 \/ rt.token_hash = <<>>
            expired == rt.expires_at <= call.now
        IN  /\ empty => call.err = ErrInvalidToken
            /\ (~empty /\ rt.is_revoked) => call.err = ErrTokenRevoked
            /\ (~empty /\ ~rt.is_revoked /\ expired) => call.err = ErrTokenExpired
            /\ (~empty /\ ~rt.is_revoked /\ ~expired) => call.err = Nil

C27_Witness ==
    /\ call.fn = "RefreshToken.IsValid"
    /\ call.rt.id # 0 /\ call.rt.user_id # 0 /\ call.rt.token_hash # <<>>
    /\ call.rt.is_revoked
    /\ call.rt.expires_at <= call.now
    /\ call.err = ErrTokenRevoked

\* C30: NewUser, NewUserWithPassword and User.IsValid answer an empty email
\* with ErrEmailIsRequired and any other invalid email with ErrInvalidEmail
\* whatever the other fields are, then report the first of the remaining
\* fields that is invalid (username before password hash in NewUser and
\* User.IsValid, password before username in NewUserWithPassword); NewUser
\* and NewUserWithPassword return no user with an error.
C30_EmailCheckedFirst ==
    call.fn \in {"NewUser", "NewUserWithPassword", "User.IsValid"} =>
        LET passwordBad == IF call.fn = "NewUserWithPassword"
                           THEN call.password # "valid"
                           ELSE call.password = "empty"
            usernameBad == call.username # "valid"
        IN  /\ call.email = "empty" => call.err = ErrEmailIsRequired
            /\ call.email = "malformed" => call.err = ErrInvalidEmail
            /\ call.email = "valid" =>
                call.err = IF call.fn = "NewUserWithPassword"
                           THEN IF passwordBad THEN ErrInvalidPassword
                                ELSE IF usernameBad THEN ErrInvalidUsername
                                ELSE Nil
                           ELSE IF usernameBad THEN ErrInvalidUsername
                                ELSE IF passwordBad THEN ErrInvalidPassword
                                ELSE Nil
            /\ call.err # Nil => call.user = <<>>
            /\ (call.err = Nil /\ call.fn # "User.IsValid") => call.user # <<>>

C30_Witness ==
    /\ call.fn = "NewUser"
    /\ call.email = "empty"
    /\ call.username = "malformed"
    /\ call.password = "empty"
    /\ call.err = ErrEmailIsRequired
    /\ call.user = <<>>

C22_VerifyOfMintedToken ==
    (call.fn = "VerifyToken" /\ call.token = call.minted) =>
        /\ (/\ call.verifyKey = call.secretKey
            /\ call.now < call.mintedAt + call.duration)
           => /\ call.res.err = Nil
              /\ call.res.payload # NoPayload
              /\ call.res.payload[1].sub = call.username
              /\ call.res.payload[1].id # 0
              /\ call.res.payload[1].exp > call.res.payload[1].iat
        /\ call.verifyKey # call.secretKey
           => /\ call.res.err # Nil
              /\ call.res.payload = NoPayload

C22_Witness ==
    /\ call.fn = "VerifyToken"
    /\ call.variant = "paseto"
    /\ call.token = call.minted
    /\ call.verifyKey = call.secretKey
    /\ call.duration = MaxDuration
    /\ call.now = call.mintedAt + 1
    /\ call.res.err = Nil
    /\ call.res.payload[1].sub = call.username

C24_KindsAreExact ==
    call.fn = "VerifyToken" =>
        LET authentic ==
                /\ call.token.form = "ok"
                /\ call.token.key = call.verifyKey
                /\ call.variant = "jwt" => call.token.alg \in SigningMethodHMAC
            expiry == call.mintedAt + call.duration
        IN  /\ call.res.err = TokenErrExpiredToken
               => (authentic /\ call.now >= expiry)
            /\ (authentic /\ call.now > expiry)
               => call.res.err = TokenErrExpiredToken
            /\ ~authentic => call.res.err = TokenErrInvalidToken

C33_EmailRule ==
    call.fn = "Email.Validate" =>
        LET s == call.s
            ats == {i \in 1..Len(s) : s[i] = "@"}
            at == CHOOSE i \in ats : TRUE
            accepted ==
                /\ Len(s) >= 5
                /\ Len(s) <= 254
                /\ Cardinality(ats) = 1
                /\ at # 1
                /\ at # Len(s)
                /\ Len(s) - at >= 2
                /\ Len(s) - at <= 253
                /\ \E i \in at + 1..Len(s) : s[i] = "."
        IN  /\ accepted => call.err = Nil
            /\ ~accepted => call.err = ErrInvalidEmail

C33_Witness ==
    /\ call.fn = "Email.Validate"
    /\ Len(call.s) = 254
    /\ call.s[251] = "@"
    /\ call.s[253] = "."
    /\ call.err = Nil

\* C34: once RevokeAllUserTokens (or RevokeToken) has returned success for a
\* session, no RefreshToken call that presents the session's refresh token
\* returns an access token afterwards, a call that had passed its validity
\* check before the revocation was written included.  revokedAll holds the
\* bearers whose sessions a RevokeAllUserTokens has returned success for.
C34_NoRefreshAfterRevocation ==
    [][(/\ returned = NoResponse
        /\ returned'.op = "RefreshToken"
        /\ returned'.tok \in revokedAll)
       => returned'.res # Nil]_vars

\* C35: Register, Login, RefreshToken, RevokeToken and RevokeAllUserTokens
\* never change the owner, the token hash or the expiry of a session that
\* exists, and the revoke step of RefreshToken and of RevokeToken changes the
\* revoked flag of no session but the one whose token the call presented.
C35_SessionsChangeByRevocationOnly ==
    [][refresh_tokens' # refresh_tokens =>
        /\ \A r \in refresh_tokens :
                \E q \in refresh_tokens' :
                    /\ q.id = r.id
                    /\ q.user_id = r.user_id
                    /\ q.token_hash = r.token_hash
                    /\ q.expires_at = r.expires_at
        /\ \A pr \in InFlight :
                (pr.pc \in {"ref_revoke", "rev_revoke"} /\ inflight' = Ended(pr))
                => \A r \in refresh_tokens \ refresh_tokens' :
                        r.token_hash = HashToken(pr.tok)]_vars

\* Two sessions of one owner, the first revoked by a call that presented its
\* token, the second untouched.
C35_Witness ==
    /\ returned.op \in {"RefreshToken", "RevokeToken"}
    /\ returned.res = Nil
    /\ \E r, q \in refresh_tokens :
            /\ r.token_hash = HashToken(returned.tok)
            /\ r.is_revoked
            /\ q.user_id = r.user_id
            /\ q.id # r.id
            /\ ~q.is_revoked

\* C36: the expiry of the bearer of a session that Register or Login created
\* is never later than the expires_at of the session; at the clock reading
\* at which VerifyRefreshToken accepts a bearer its session is not expired;
\* and a RefreshToken call that presents a bearer that has expired is
\* answered with ErrInvalidToken by its verification.  ErrTokenExpired is
\* returned only by the later reading of the clock in IsValid.
C36_ExpiredBearerIsInvalidToken ==
    [][/\ \A r \in refresh_tokens' : \A b \in 1..Len(bearers') :
            r.token_hash = HashToken(b) => bearers'[b].exp <= r.expires_at
       /\ \A pr \in BagToSet(inflight') :
            (pr.pc = "ref_record" /\ CopiesIn(pr, inflight') > CopiesIn(pr, inflight))
            => \A r \in refresh_tokens :
                    r.token_hash = HashToken(pr.tok) => r.expires_at > now
       /\ (/\ returned' # returned
           /\ returned'.op = "RefreshToken"
           /\ returned'.tok \in 1..Len(bearers)
           /\ bearers[returned'.tok].exp <= now
           /\ inflight' = inflight)
          => returned'.res = ErrInvalidToken
       /\ (returned' # returned /\ returned'.res = ErrTokenExpired)
          => \E pr \in InFlight : pr.pc = "ref_record" /\ inflight' = Ended(pr)
      ]_vars

\* A call that presents an expired bearer whose session is stored and not
\* revoked, answered with ErrInvalidToken.
C36_Witness ==
    /\ returned.op = "RefreshToken"
    /\ returned.res = ErrInvalidToken
    /\ returned.tok \in 1..Len(bearers)
    /\ bearers[returned.tok].exp <= now
    /\ \E r \in refresh_tokens :
        /\ r.token_hash = HashToken(returned.tok)
        /\ ~r.is_revoked
        /\ r.expires_at <= now

\* C36 as stated: no RefreshToken call that presents a bearer of a session
\* is answered with ErrTokenExpired.
C36_NeverTokenExpired ==
    (returned.op = "RefreshToken" /\ returned.tok \in 1..Len(bearers))
    => returned.res # ErrTokenExpired

\* C37: no session has the digest of an access token as its token hash, and
\* a RefreshToken call that presents an access token minted by Register,
\* Login or RefreshToken is answered with ErrInvalidToken and never gets to
\* the step that revokes.
C37_AccessTokenIsNoRefreshToken ==
    /\ \A r \in refresh_tokens : \A a \in AccessTokens :
            r.token_hash # HashToken(a)
    /\ (returned.op = "RefreshToken" /\ returned.tok <= 0 - 2)
       => returned.res = ErrInvalidToken
    /\ \A pr \in InFlight : pr.tok <= 0 - 2 => pr.pc # "ref_revoke"

\* An access token that still verifies, minted by a RefreshToken call and
\* refused by the lookup of its digest while a session is stored.
C37_Witness ==
    /\ returned.op = "RefreshToken"
    /\ returned.tok \in AccessTokens
    /\ AccessOwner(returned.tok) \in consumed
    /\ JWTVerifyRefreshToken(returned.tok, now) = Nil
    /\ returned.res = ErrInvalidToken
    /\ refresh_tokens # {}

\* C38: when a store call of RevokeToken, RevokeAllUserTokens,
\* CleanupExpiredTokens or of the revoke step of RefreshToken is aborted by
\* the cancellation of the request or by its deadline, the status the client
\* receives has the code Canceled, respectively DeadlineExceeded.
C38_AbortedStoreCallIsCanceled ==
    call.fn = "StoreAbort" =>
        call.status.code = IF call.cause = ContextCanceled THEN "Canceled"
                           ELSE "DeadlineExceeded"

\* C39: the interceptor hands at most maxRequests calls of a method to the
\* handler between two resets of its counters, also when the calls run in
\* goroutines of their own.
C39_AtMostMaxRequests ==
    \A m \in FullMethods : rateLimiter.admitted[m] <= maxRequests

====
